---- MODULE Spec2Model ----
(***************************************************************************)
(* A model of luatt.py: the host-side bridge between a microcontroller     *)
(* (the upstream device), the local request issuer (main thread), the      *)
(* attach server (one handler thread per downstream connection) and the    *)
(* MQTT bridge.  Frames are sequences of byte strings; a byte string is a  *)
(* sequence of byte values 0..255.                                         *)
(***************************************************************************)
EXTENDS Integers, Sequences, FiniteSets, TLC

(***************************************************************************)
(* Bounds of the model.                                                    *)
(***************************************************************************)
\* Number of external events explored: device frames and EOF, client
\* connects, frames, closes, user requests, bus messages.
MaxInputs == 5
\* Number of file descriptors the attach server hands out to connections.
MaxClients == 2
\* The same two numbers for the scenarios that are explored in full one
\* step further.
FewInputs == 4
FewClients == 1
\* Seconds between two looks at the clock.
TickSecs == 5
\* Seconds of waiting that are counted.
MaxWaited == 15
\* Number of targets of one load command.
MaxTargets == 3
\* Length of a field a function of the codec is called with.
MaxField == 3
\* Number of fields of a frame that is encoded and decoded, and the length
\* of its fields.
MaxFields == 3
MaxArg == 2
\* Number of frames of a stream that is decoded, and number of places
\* where the transport cuts it.
MaxFrames == 2
MaxCuts == 2
\* Number of entries of a zip archive.
MaxEntries == 3
\* Number of bytes of a file that is packed, and of a long one.
MaxData == 3
LongData == 40
\* Number of pieces of a Lua source that is stripped.
MaxPieces == 4

(***************************************************************************)
(* Byte strings used by the program (literals of src/luatt.py) and by the  *)
(* environment of the model.                                               *)
(***************************************************************************)
B_sched == <<115, 99, 104, 101, 100>>                     \* "sched"
B_noret == <<110, 111, 114, 101, 116>>                    \* "noret"
B_empty == <<>>                                           \* ""
B_ret == <<114, 101, 116>>                                \* "ret"
B_pub == <<112, 117, 98>>                                 \* "pub"
B_sub == <<115, 117, 98>>                                 \* "sub"
B_unsub == <<117, 110, 115, 117, 98>>                     \* "unsub"
B_version == <<118, 101, 114, 115, 105, 111, 110>>        \* "version"
B_eval == <<101, 118, 97, 108>>                           \* "eval"
B_reset == <<114, 101, 115, 101, 116>>                    \* "reset"
B_load == <<108, 111, 97, 100>>                           \* "load"
B_compile == <<99, 111, 109, 112, 105, 108, 101>>         \* "compile"
B_msg == <<109, 115, 103>>                                \* "msg"
B_reconnect == <<114, 101, 99, 111, 110, 110, 101, 99, 116>> \* "reconnect"
B_star == <<42>>                                          \* "*"
\* "Luatt.time.set_unix(0,0)": the clock reads 0 s, 0 ms in the model
B_settime == <<76, 117, 97, 116, 116, 46, 116, 105, 109, 101, 46, 115, 101,
               116, 95, 117, 110, 105, 120, 40, 48, 44, 48, 41>>
B_ppid == <<49>>                                          \* str(os.getppid()) = "1"

\* Environment data: what the device, the clients, the user and the bus send.
E_out == <<111, 117, 116>>                                \* "out"
E_hi == <<104, 255>>                                      \* b"h\xff"
E_42 == <<52, 50>>                                        \* "42"
E_v1 == <<49, 46, 48>>                                    \* "1.0"
E_boot == <<98, 111, 111, 116>>                           \* "boot"
E_topic == <<116, 49>>                                    \* "t1"
E_topic2 == <<116, 50>>                                   \* "t2"
E_payload == <<112, 10, 113>>                             \* "p\nq"
E_line == <<49, 43, 49>>                                  \* "1+1"
E_name == <<102>>                                         \* "f"
E_data == <<97, 10, 98>>                                  \* "a\nb"
E_D1 == <<55, 47, 56, 47, 97>>                            \* "7/8/a"
E_D2 == <<55, 47, 56, 47, 98>>                            \* "7/8/b"

(***************************************************************************)
(* Text of a byte string.  A str is the sequence of its code points.       *)
(***************************************************************************)
Cont(x) == x >= 128 /\ x <= 191

\* bstr.decode('utf-8'): ok, and the code points.  Bytes below 0x80 are
\* their own code points.
RECURSIVE Utf8(_)
Utf8(b) ==
    IF \A i \in 1..Len(b) : b[i] < 128 THEN [ok |-> TRUE, s |-> b]
    ELSE LET n == IF b[1] < 128 THEN 1
                  ELSE IF b[1] >= 194 /\ b[1] <= 223 THEN 2
                  ELSE IF b[1] >= 224 /\ b[1] <= 239 THEN 3
                  ELSE IF b[1] >= 240 /\ b[1] <= 244 THEN 4
                  ELSE 0
             good == /\ n > 0
                     /\ Len(b) >= n
                     /\ \A i \in 2..n : Cont(b[i])
                     /\ (b[1] = 224 => b[2] >= 160)
                     /\ (b[1] = 237 => b[2] <= 159)
                     /\ (b[1] = 240 => b[2] >= 144)
                     /\ (b[1] = 244 => b[2] <= 143)
         IN IF ~good THEN [ok |-> FALSE, s |-> <<>>]
            ELSE LET cp == IF n = 1 THEN b[1]
                           ELSE IF n = 2 THEN (b[1] - 192) * 64 + (b[2] - 128)
                           ELSE IF n = 3 THEN (b[1] - 224) * 4096 + (b[2] - 128) * 64
                                              + (b[3] - 128)
                           ELSE (b[1] - 240) * 262144 + (b[2] - 128) * 4096
                                + (b[3] - 128) * 64 + (b[4] - 128)
                     rest == Utf8(SubSeq(b, n + 1, Len(b)))
                 IN [ok |-> rest.ok, s |-> <<cp>> \o rest.s]

HexDigit(d) == IF d < 10 THEN 48 + d ELSE 87 + d

\* The body of repr(bstr) under the quote q: escapes for the quote, the
\* backslash, tab, newline, carriage return and every byte outside
\* 0x20..0x7e.
RECURSIVE ReprBody(_, _)
ReprBody(b, q) ==
    IF b = <<>> THEN <<>>
    ELSE (IF b[1] = q \/ b[1] = 92 THEN <<92, b[1]>>
          ELSE IF b[1] = 9 THEN <<92, 116>>
          ELSE IF b[1] = 10 THEN <<92, 110>>
          ELSE IF b[1] = 13 THEN <<92, 114>>
          ELSE IF b[1] < 32 \/ b[1] >= 127
               THEN <<92, 120, HexDigit(b[1] \div 16), HexDigit(b[1] % 16)>>
          ELSE <<b[1]>>)
         \o ReprBody(Tail(b), q)

\* repr(bstr): b'...', or b"..." when the bytes hold ' and no ".
repr(b) ==
    LET q == IF (\E i \in 1..Len(b) : b[i] = 39) /\ ~(\E i \in 1..Len(b) : b[i] = 34)
             THEN 34 ELSE 39
    IN <<98, q>> \o ReprBody(b, q) \o <<q>>

decode_or_repr(bstr) == IF Utf8(bstr).ok THEN Utf8(bstr).s ELSE repr(bstr)

\* coerce_string of a bytes value
coerce_string(bstr) ==
    IF Utf8(bstr).ok THEN Utf8(bstr).s
    ELSE SubSeq(repr(bstr), 3, Len(repr(bstr)) - 1)

(***************************************************************************)
(* Frame codec, encoder side.                                              *)
(***************************************************************************)
\* is_clean(b): the field may be written inline in the header line.
is_clean(b) ==
    IF b = <<>> THEN TRUE
    ELSE IF b[1] = 38 THEN FALSE
    ELSE \A i \in 1..Len(b) : ~(b[i] < 32 \/ b[i] > 126 \/ b[i] = 124)

\* f'{n}'.encode('utf-8'): the decimal digits of n >= 0.
RECURSIVE Decimal(_)
Decimal(n) ==
    IF n < 10 THEN <<48 + n>> ELSE Decimal(n \div 10) \o <<48 + (n % 10)>>

\* escape_arg(bstr): <<field, raws>>, raws being the trailers the field adds
\* (none for a clean field, the raw bytes otherwise).
escape_arg(bstr) ==
    IF is_clean(bstr) THEN <<bstr, <<>>>>
    ELSE <<(<<38>> \o Decimal(Len(bstr))), <<bstr>>>>

\* sep.join(parts)
RECURSIVE Join(_, _)
Join(parts, sep) ==
    IF parts = <<>> THEN <<>>
    ELSE IF Len(parts) = 1 THEN parts[1]
    ELSE parts[1] \o sep \o Join(Tail(parts), sep)

RECURSIVE Trailers(_)
Trailers(args) ==
    IF args = <<>> THEN <<>>
    ELSE escape_arg(Head(args))[2] \o Trailers(Tail(args))

\* The header line of write_command: the token as it is, then every
\* argument escaped, joined by '|'.
HeaderLine(packet) ==
    Join(<<packet[1]>> \o [i \in 1..(Len(packet) - 1) |-> escape_arg(packet[i + 1])[1]],
         <<124>>)

\* write_command's buffer `out`: the header line, then every raw trailer,
\* each followed by a newline.
EncodeOut(packet) ==
    Join(<<HeaderLine(packet)>> \o Trailers(Tail(packet)) \o <<(<<>>)>>, <<10>>)

\* A write_command that writes the header line and every trailer with an
\* os.write of its own.
write_command_split(packet) ==
    <<HeaderLine(packet) \o <<10>>>> \o
    [i \in 1..Len(Trailers(Tail(packet))) |-> Trailers(Tail(packet))[i] \o <<10>>]

\* The os.write calls write_command makes for one frame: one, of the whole
\* buffer.
write_command(packet) == <<EncodeOut(packet)>>

\* A token that an attached client makes too.
new_token_taken(n) == <<55, 47, 56, 47, 97>>

\* new_token(): the n-th token this process draws, "<ppid>/<pid>/<random>":
\* ppid 1, pid 2, and a random part that differs from draw to draw.
new_token(n) == <<49, 47, 50, 47, 96 + n>>


(***************************************************************************)
(* State.                                                                  *)
(***************************************************************************)
VARIABLES
    Conn_fd,        \* Conn['fd']: "unset" (no such key), "None", or "fd"
    is_socket,      \* Conn['is_socket']: the upstream is another luatt.py
    Enable_REPL,    \* sys.stdout.isatty()
    Quit,           \* the process-wide shutdown flag
    QS,             \* keys of the dict QS; every value is the one queue ReplQ
    ReplQ,          \* queue.Queue(20): [n |-> arrival number, pkt |-> packet]
    Downstreams,    \* the dict Downstreams in insertion order: <<token, fd>>
    Subscriptions,  \* the set Subscriptions
    paho,           \* "none": paho-mqtt not installed; "idle"; "running"
    busLog,         \* calls the last bridge operation made on the paho client
    subscribed,     \* topics the connected bus was ever asked to subscribe
    replay,         \* resubscribe_topics: its loop over Subscriptions
    mainPc,         \* where the main thread is
    phase,          \* "argv": before the try block of main(); "repl": inside
    token,          \* the token of the main thread's request
    ntok,           \* number of tokens new_token() has drawn
    result,         \* what wait_for_ret returned last
    rdPc,           \* the read_serial thread
    nread,          \* number of packets read_serial has read
    packet,         \* the packet read_serial read last
    hPc,            \* per fd: the SocketHandler thread of the connection
    last_token,     \* per fd: handle()'s local last_token (<<>>: None)
    hpacket,        \* per fd: handle()'s local packet, the one read last
    wbuf,           \* per thread: the os.write calls it has still to make
    wire,           \* the last os.write on the upstream fd (<<>>: none yet)
    asked,          \* tokens of the frames written upstream so far
    sock,           \* per fd: number of write_command calls on the socket
                    \* of the connection, and what the last one wrote
    stdout,         \* number of sys.stdout.write calls of the router and
                    \* the waiter, and what the last one wrote
    serverUp,       \* the attach server accepts connections
    sigint,         \* a SIGINT sent to the main thread is pending
    nin,            \* number of external events so far
    targets,        \* cmd_load: the load targets still to come
    idle,           \* seconds the q.get of wait_for_version has blocked
    waited,         \* seconds since wait_for_version was entered, as far
                    \* as they are counted
    bcast,          \* process_serial_packet: its loop over Downstreams
    arg,            \* the argument of a function that is called by itself
    ret             \* <<>>, or <<r>> when the function has returned r

vars == <<Conn_fd, is_socket, Enable_REPL, Quit, QS, ReplQ, Downstreams, Subscriptions,
          paho, busLog, mainPc, phase, token, ntok, result, rdPc, nread,
          packet, hPc, last_token, hpacket, wbuf, wire, asked, sock, stdout, subscribed, replay,
          serverUp,
          sigint, nin, targets, idle, waited, bcast, arg, ret>>

cfgVars == <<Conn_fd, is_socket, Enable_REPL>>
callVars == <<arg, ret>>
busVars == <<Subscriptions, paho, busLog, subscribed, replay>>
mainVars == <<mainPc, phase, token, ntok, result>>
rdVars == <<rdPc, nread, packet>>
hVars == <<hPc, last_token, hpacket>>
clockVars == <<idle, waited>>
loadVars == <<targets>>

Fds == 1..MaxClients
\* Threads that write upstream: the main thread, the handler of each fd,
\* and the paho network thread.
MainTh == 0
BusTh == MaxClients + 1
Threads == 0..(MaxClients + 1)

\* queue.Queue(20)
ReplQMax == 20

\* q.get(True, 10) of wait_for_version
VersionTimeoutSecs == 10

None == <<>>

\* The reader is not in the loop over Downstreams.
NoBroadcast == [on |-> FALSE, used |-> 0, todo |-> <<>>, n |-> 0, pkt |-> <<>>]

\* No on_connect callback is running.
NoReplay ==
    [on |-> FALSE, had |-> {}, used |-> 0, seen |-> {}, calls |-> <<>>, error |-> FALSE]

\* No function is called by itself.
NoCall == [fn |-> "none"]

\* The module globals as the import of luatt.py leaves them.
Fresh ==
    /\ Enable_REPL \in BOOLEAN
    /\ Quit = FALSE
    /\ QS = {}
    /\ ReplQ = <<>>
    /\ Downstreams = <<>>
    /\ Subscriptions = {}
    /\ paho \in {"none", "idle"}
    /\ busLog = <<>>
    /\ subscribed = {}
    /\ replay = NoReplay
    /\ bcast = NoBroadcast
    /\ phase = "argv"
    /\ token = None
    /\ ntok = 0
    /\ result = None
    /\ rdPc = "init"
    /\ nread = 0
    /\ packet = <<>>
    /\ hPc = [fd \in Fds |-> "none"]
    /\ last_token = [fd \in Fds |-> None]
    /\ hpacket = [fd \in Fds |-> <<>>]
    /\ wbuf = [t \in Threads |-> <<>>]
    /\ wire = <<>>
    /\ asked = {}
    /\ sock = [fd \in Fds |-> [cnt |-> 0, w |-> <<>>]]
    /\ stdout = [cnt |-> 0, last |-> <<>>]
    /\ serverUp = FALSE
    /\ sigint = FALSE
    /\ nin = 0
    /\ targets = <<>>
    /\ idle = 0
    /\ waited = 0

\* main() is entered: Conn = {}.
Init ==
    /\ Fresh
    /\ arg = NoCall
    /\ ret = <<>>
    /\ mainPc = "boot"
    /\ Conn_fd = "unset"
    /\ is_socket = FALSE

\* open_conn has opened a serial device or a socket, and main() goes on.
Opened ==
    /\ Fresh
    /\ arg = NoCall
    /\ ret = <<>>
    /\ mainPc = "start"
    /\ Conn_fd = "fd"
    /\ is_socket \in BOOLEAN

\* The process is gone: the main thread has left main() and no handler
\* thread (the only threads that are not daemons) is left.
Exited ==
    /\ mainPc \in {"exit0", "exit2", "exit3", "exit5", "killed", "crashed"}
    /\ \A fd \in Fds : hPc[fd] \notin {"run", "eof"}

(***************************************************************************)
(* write_command and os.write.                                             *)
(***************************************************************************)
\* sys.stdout.write(line)
Write(out, line) == [cnt |-> out.cnt + 1, last |-> line]

\* write_command up to its os.write: thread t holds the buffers to write.
Pending(t, pkt) ==
    [i \in 1..Len(write_command(pkt)) |->
        [by |-> t, frame |-> pkt, data |-> write_command(pkt)[i]]]

\* os.write(Conn['fd'], out) by thread t: the upstream fd takes the buffer.
OsWrite(t) ==
    /\ ~Exited
    /\ wbuf[t] # <<>>
    /\ t = MainTh => ~sigint
    /\ wire' = <<Head(wbuf[t])>>
    /\ asked' = asked \cup {Head(wbuf[t]).frame[1]}
    /\ wbuf' = [wbuf EXCEPT ![t] = Tail(@)]
    /\ UNCHANGED <<cfgVars, callVars, bcast, loadVars, clockVars, busVars, mainVars, rdVars, hVars, Quit, QS, ReplQ,
                   Downstreams, sock, stdout, serverUp, sigint, nin>>


(***************************************************************************)
(* The main thread.                                                        *)
(***************************************************************************)
\* What stat() finds at the path given to open_conn.
PathKinds == {"missing", "chr", "sock", "other"}

\* open_conn(path) for a path of the kind, with open() or connect()
\* succeeding or not: whether an exception left it, what it returned, and
\* the keys of Conn it set.  open_serial and open_socket return None when
\* open() or connect() fails; Conn['sock'].fileno() on None raises
\* AttributeError.
open_conn(kind, ok) ==
    IF kind = "missing"
    THEN [raised |-> FALSE, ret |-> FALSE, fd |-> "unset",
          has_is_socket |-> FALSE, is_socket |-> FALSE]
    ELSE IF kind = "chr"
    THEN [raised |-> FALSE, ret |-> TRUE, fd |-> IF ok THEN "fd" ELSE "None",
          has_is_socket |-> TRUE, is_socket |-> FALSE]
    ELSE IF kind = "sock"
    THEN [raised |-> ~ok, ret |-> ok, fd |-> IF ok THEN "fd" ELSE "unset",
          has_is_socket |-> ok, is_socket |-> ok]
    ELSE [raised |-> FALSE, ret |-> TRUE, fd |-> "unset",
          has_is_socket |-> FALSE, is_socket |-> FALSE]

\* main() up to the first use of Conn['is_socket']: sys.exit(5) when
\* open_conn returns False; an exception out of open_conn, or KeyError on
\* Conn['is_socket'], leaves main().
OpenConn(kind, ok) ==
    /\ mainPc = "boot"
    /\ LET c == open_conn(kind, ok) IN
          /\ Conn_fd' = c.fd
          /\ is_socket' = c.is_socket
          /\ mainPc' = IF c.raised THEN "crashed"
                       ELSE IF ~c.ret THEN "exit5"
                       ELSE IF ~c.has_is_socket THEN "crashed"
                       ELSE "start"
    /\ UNCHANGED <<Enable_REPL, callVars, bcast, loadVars, clockVars, busVars, phase, token, ntok, result,
                   rdVars, hVars, Quit, QS, ReplQ, Downstreams, wbuf, wire, asked,
                   sock, stdout, serverUp, sigint, nin>>

\* main() from the start of the reader thread to its first blocking point.
\* Serial: QS['sched'] = ReplQ, start read_serial, wait for the version.
\* Socket: start read_serial, announce ourselves upstream.
MainStart ==
    /\ mainPc = "start"
    /\ rdPc' = IF Conn_fd = "fd" THEN "run" ELSE "badfd"
    /\ IF is_socket
       THEN /\ wbuf' = [wbuf EXCEPT ![MainTh] =
                            Pending(MainTh, <<B_noret, B_reconnect, B_ppid>>)]
            /\ mainPc' = "idle"
            /\ QS' = QS
       ELSE /\ QS' = QS \cup {B_sched}
            /\ mainPc' = "wait_version"
            /\ wbuf' = wbuf
    /\ UNCHANGED <<cfgVars, callVars, bcast, loadVars, clockVars, busVars, phase, token, ntok, result, nread, packet,
                   hVars, Quit, ReplQ, Downstreams, wire, asked, sock, stdout,
                   serverUp, sigint, nin>>

\* The main thread is gone for good.
MainOver == mainPc \in {"exit0", "exit2", "exit3", "exit5", "killed", "crashed"}

\* The main thread is in the finally clause of main(): at Server.shutdown()
\* and Server_thread.join(), at the close of the upstream, at
\* th_serial.join(), at the unlinking of the socket and the symlink.
InFinally == mainPc \in {"finally", "close", "join", "unlink"}

\* wait_for_version: the test of `while not Quit`.  When it fails the
\* function returns None and main() goes on: del QS['sched'], then the
\* clock is sent to the device.
WaitVersionCheck ==
    /\ mainPc = "wait_version"
    /\ ~sigint
    /\ IF Quit
       THEN /\ result' = None
            /\ QS' = QS \ {B_sched}
            /\ wbuf' = [wbuf EXCEPT ![MainTh] =
                            Pending(MainTh, <<B_noret, B_eval, B_settime>>)]
            /\ mainPc' = "time_sync"
            /\ idle' = 0 /\ waited' = 0
       ELSE /\ mainPc' = "version_get"
            /\ UNCHANGED <<result, QS, wbuf, clockVars>>
    /\ UNCHANGED <<cfgVars, callVars, bcast, loadVars, busVars, phase, token, ntok, rdVars, hVars, Quit,
                   ReplQ, Downstreams, wire, asked, sock, stdout, serverUp, sigint,
                   nin>>

\* wait_for_version: q.get(True, 10) returned a packet.  The version packet
\* ends the wait; any other packet is dropped, and the next q.get starts
\* its timeout anew.
WaitVersionGet ==
    /\ mainPc = "version_get"
    /\ ReplQ # <<>>
    /\ ~sigint
    /\ ReplQ' = Tail(ReplQ)
    /\ LET v == Head(ReplQ).pkt IN
       IF v[1] = B_sched /\ v[2] = B_version
       THEN /\ result' = v
            /\ QS' = QS \ {B_sched}
            /\ wbuf' = [wbuf EXCEPT ![MainTh] =
                            Pending(MainTh, <<B_noret, B_eval, B_settime>>)]
            /\ mainPc' = "time_sync"
            /\ idle' = 0 /\ waited' = 0
       ELSE /\ mainPc' = "wait_version"
            /\ idle' = 0 /\ waited' = waited
            /\ UNCHANGED <<result, QS, wbuf>>
    /\ UNCHANGED <<cfgVars, callVars, bcast, loadVars, busVars, phase, token, ntok, rdVars, hVars, Quit,
                   Downstreams, wire, asked, sock, stdout, serverUp, sigint, nin>>

\* Time passes while q.get(True, 10) of wait_for_version blocks on the
\* empty queue.
Tick ==
    /\ mainPc = "version_get"
    /\ ReplQ = <<>>
    /\ ~sigint
    /\ idle < VersionTimeoutSecs
    /\ idle' = idle + TickSecs
    /\ waited' = IF waited + TickSecs > MaxWaited THEN MaxWaited
                 ELSE waited + TickSecs
    /\ UNCHANGED <<cfgVars, callVars, bcast, loadVars, busVars, mainVars, rdVars, hVars, Quit, QS, ReplQ,
                   Downstreams, wbuf, wire, asked, sock, stdout, serverUp, sigint,
                   nin>>

\* wait_for_version: the queue stayed empty for 10 seconds: sys.exit(3).
VersionTimeout ==
    /\ mainPc = "version_get"
    /\ ReplQ = <<>>
    /\ ~sigint
    /\ idle >= VersionTimeoutSecs
    /\ mainPc' = "exit3"
    /\ UNCHANGED <<cfgVars, callVars, bcast, loadVars, clockVars, busVars, phase, token, ntok, result, rdVars, hVars,
                   Quit, QS, ReplQ, Downstreams, wbuf, wire, asked, sock, stdout,
                   serverUp, sigint, nin>>

\* create_socket_and_symlink and the start of Server.serve_forever.
ServerStart ==
    /\ mainPc = "time_sync"
    /\ ~sigint
    /\ wbuf[MainTh] = <<>>
    /\ serverUp' = TRUE
    /\ mainPc' = "idle"
    /\ UNCHANGED <<cfgVars, callVars, bcast, loadVars, clockVars, busVars, phase, token, ntok, result, rdVars, hVars,
                   Quit, QS, ReplQ, Downstreams, wbuf, wire, asked, sock, stdout,
                   sigint, nin>>

\* The requests the user makes: eval:EXPR or a REPL line, -r or !reset,
\* a load target, !compile.
UserRequests ==
    { <<B_eval, E_line>>, <<B_reset>>, <<B_load, E_name, E_data>>,
      <<B_compile, E_name, E_data>> }

\* A request that installs no reply queue.
Register_none(qs, tok) == qs

\* QS[token] = ReplQ
Register(qs, tok) == qs \cup {tok}

\* cmd_eval, cmd_reset, load_data up to the os.write of write_command:
\* token = new_token(); QS[token] = ReplQ; write_command(fd, token, ...).
\* In the argv phase every platform may ask; at the prompt a terminal must
\* be there.
Request(req) ==
    /\ mainPc = "idle"
    /\ ~sigint
    /\ wbuf[MainTh] = <<>>
    /\ phase = "repl" => Enable_REPL
    /\ nin < MaxInputs
    /\ nin' = nin + 1
    /\ ntok' = ntok + 1
    /\ token' = new_token(ntok + 1)
    /\ QS' = Register(QS, new_token(ntok + 1))
    /\ wbuf' = [wbuf EXCEPT ![MainTh] =
                    Pending(MainTh, <<new_token(ntok + 1)>> \o req)]
    /\ mainPc' = "wait_ret"
    /\ UNCHANGED <<cfgVars, callVars, bcast, loadVars, clockVars, busVars, phase, result, rdVars, hVars, Quit, ReplQ,
                   Downstreams, wire, asked, sock, stdout, serverUp, sigint>>

\* wait_for_ret: the test of `while not Quit`.
WaitCheck ==
    /\ mainPc = "wait_ret"
    /\ ~sigint
    /\ wbuf[MainTh] = <<>>
    /\ IF Quit
       THEN /\ result' = None
            /\ mainPc' = "req_del"
       ELSE /\ result' = result
            /\ mainPc' = "wait_get"
    /\ UNCHANGED <<cfgVars, callVars, bcast, loadVars, clockVars, busVars, phase, token, ntok, rdVars, hVars, Quit,
                   QS, ReplQ, Downstreams, wbuf, wire, asked, sock, stdout, serverUp,
                   sigint, nin>>

\* sys.stdout.write(coerce_string(body) + "\n") of wait_for_ret
WaiterLine(v) == coerce_string(Join(Tail(v), <<124>>)) \o <<10>>

\* wait_for_ret: q.get() returned v.  A packet with our token is written to
\* stdout, and returned when its verb is ret; any other packet is dropped.
WaitGet ==
    /\ mainPc = "wait_get"
    /\ ~sigint
    /\ ReplQ # <<>>
    /\ ReplQ' = Tail(ReplQ)
    /\ LET v == Head(ReplQ).pkt IN
       IF coerce_string(v[1]) = token
       THEN /\ stdout' = Write(stdout, WaiterLine(v))
            /\ IF v[2] = B_ret
               THEN /\ result' = v
                    /\ mainPc' = "req_del"
               ELSE /\ result' = result
                    /\ mainPc' = "wait_ret"
       ELSE /\ stdout' = stdout
            /\ result' = result
            /\ mainPc' = "wait_ret"
    /\ UNCHANGED <<cfgVars, callVars, bcast, loadVars, clockVars, busVars, phase, token, ntok, rdVars, hVars, Quit,
                   QS, Downstreams, wbuf, wire, asked, sock, serverUp, sigint, nin>>

\* del QS[token], and back to the caller: to the loop of cmd_load while
\* it has targets to come.
RequestDone ==
    /\ mainPc = "req_del"
    /\ ~sigint
    /\ QS' = QS \ {token}
    /\ mainPc' = IF targets # <<>> THEN "load" ELSE "idle"
    /\ UNCHANGED <<cfgVars, callVars, bcast, loadVars, clockVars, busVars, phase, token, ntok, result, rdVars, hVars,
                   Quit, ReplQ, Downstreams, wbuf, wire, asked, sock, stdout,
                   serverUp, sigint, nin>>


\* The names of the load targets, by their place in the command.
TargetNames == <<<<97>>, <<98>>, <<99>>, <<100>>>>

\* What a load target is: a Lua file that can be read, a Lua file that is
\* missing or unreadable, a Loader.cmd manifest or a zip archive that is
\* missing.
TargetKinds == {"lua", "nofile", "nomanifest"}

\* The target lists of a load command: the i-th target has the i-th name.
TargetLists(verb) ==
    UNION { { [i \in 1..n |-> [name |-> TargetNames[i], kind |-> k[i], verb |-> verb]] :
                k \in [1..n -> TargetKinds] } : n \in 1..MaxTargets }

\* cmd_load is called: `!load` or `!compile` with its targets at the
\* prompt, or one load target of the command line.
LoadCommand(ts) ==
    /\ mainPc = "idle"
    /\ ~sigint
    /\ wbuf[MainTh] = <<>>
    /\ IF phase = "repl" THEN Enable_REPL
       ELSE Len(ts) = 1 /\ ts[1].verb = B_load
    /\ nin < MaxInputs
    /\ nin' = nin + 1
    /\ targets' = ts
    /\ mainPc' = "load"
    /\ UNCHANGED <<cfgVars, callVars, bcast, clockVars, busVars, phase, token, ntok, result, rdVars,
                   hVars, Quit, QS, ReplQ, Downstreams, wbuf, wire, asked, sock,
                   stdout, serverUp, sigint>>

\* One turn of the loop of cmd_load.  A Lua file that is read goes to
\* load_data: token = new_token(); QS[token] = ReplQ; write_command up to
\* its os.write.  A Lua file that cannot be read is logged and cmd_load
\* returns.  A manifest or archive that cannot be opened raises OSError out
\* of cmd_load, which nothing catches: at the prompt the finally clause of
\* main() runs, in the argument loop the exception leaves main().
LoadStep ==
    /\ mainPc = "load"
    /\ ~sigint
    /\ targets # <<>>
    /\ LET t == Head(targets) IN
       IF t.kind = "lua"
       THEN /\ targets' = Tail(targets)
            /\ ntok' = ntok + 1
            /\ token' = new_token(ntok + 1)
            /\ QS' = Register(QS, new_token(ntok + 1))
            /\ wbuf' = [wbuf EXCEPT ![MainTh] =
                            Pending(MainTh, <<new_token(ntok + 1), t.verb, t.name, E_data>>)]
            /\ mainPc' = "wait_ret"
            /\ UNCHANGED <<Quit, serverUp>>
       ELSE IF t.kind = "nofile"
       THEN /\ targets' = <<>>
            /\ mainPc' = "idle"
            /\ UNCHANGED <<ntok, token, QS, wbuf, Quit, serverUp>>
       ELSE /\ targets' = <<>>
            /\ IF phase = "repl"
               THEN /\ Quit' = TRUE
                    /\ serverUp' = FALSE
                    /\ mainPc' = "finally"
               ELSE /\ mainPc' = "crashed"
                    /\ UNCHANGED <<Quit, serverUp>>
            /\ UNCHANGED <<ntok, token, QS, wbuf>>
    /\ UNCHANGED <<cfgVars, callVars, bcast, clockVars, busVars, phase, result, rdVars, hVars, ReplQ,
                   Downstreams, wire, asked, sock, stdout, sigint, nin>>

\* The end of the argument loop of main(): the try block is entered.
ArgvDone ==
    /\ mainPc = "idle"
    /\ ~sigint
    /\ phase = "argv"
    /\ wbuf[MainTh] = <<>>
    /\ phase' = "repl"
    /\ UNCHANGED <<cfgVars, callVars, bcast, loadVars, clockVars, busVars, mainPc, token, ntok, result, rdVars, hVars,
                   Quit, QS, ReplQ, Downstreams, wbuf, wire, asked, sock, stdout,
                   serverUp, sigint, nin>>

\* The argument --mqtt=HOST: return 2 on a socket transport or without
\* paho-mqtt; otherwise paho_client.connect and loop_start.
MqttArg ==
    /\ mainPc = "idle"
    /\ ~sigint
    /\ phase = "argv"
    /\ wbuf[MainTh] = <<>>
    /\ paho # "running"
    /\ nin < MaxInputs
    /\ nin' = nin + 1
    /\ IF is_socket \/ paho = "none"
       THEN /\ mainPc' = "exit2"
            /\ paho' = paho
       ELSE /\ mainPc' = mainPc
            /\ paho' = "running"
    /\ UNCHANGED <<cfgVars, callVars, bcast, loadVars, clockVars, Subscriptions, busLog, subscribed, replay, phase, token, ntok, result,
                   rdVars, hVars, Quit, QS, ReplQ, Downstreams, wbuf, wire, asked,
                   sock, stdout, serverUp, sigint>>

\* Ctrl-C at the terminal: a SIGINT for the main thread.
UserInterrupt ==
    /\ ~MainOver
    /\ mainPc # "start"
    /\ ~sigint
    /\ nin < MaxInputs
    /\ nin' = nin + 1
    /\ sigint' = TRUE
    /\ UNCHANGED <<cfgVars, callVars, bcast, loadVars, clockVars, busVars, mainVars, rdVars, hVars, Quit, QS, ReplQ,
                   Downstreams, wbuf, wire, asked, sock, stdout, serverUp>>

\* KeyboardInterrupt in the main thread.  Inside the try block of main() the
\* finally clause runs: Quit = True, Server.shutdown().  Before it, the
\* exception leaves main().  A write_command under way is abandoned.
MainSigint ==
    /\ sigint
    /\ ~MainOver
    /\ ~InFinally
    /\ sigint' = FALSE
    /\ wbuf' = [wbuf EXCEPT ![MainTh] = <<>>]
    /\ IF phase = "repl"
       THEN /\ Quit' = TRUE
            /\ serverUp' = FALSE
            /\ mainPc' = "finally"
       ELSE /\ mainPc' = "killed"
            /\ UNCHANGED <<Quit, serverUp>>
    /\ UNCHANGED <<cfgVars, callVars, bcast, loadVars, clockVars, busVars, phase, token, ntok, result, rdVars, hVars,
                   QS, ReplQ, Downstreams, wire, asked, sock, stdout, nin>>

\* `while not Quit` of the prompt loop or of the sleep loop fails: the
\* finally clause runs.
MainLoopExit ==
    /\ mainPc = "idle"
    /\ ~sigint
    /\ phase = "repl"
    /\ Quit
    /\ mainPc' = "finally"
    /\ serverUp' = FALSE
    /\ UNCHANGED <<cfgVars, callVars, bcast, loadVars, clockVars, busVars, phase, token, ntok, result, rdVars, hVars,
                   Quit, QS, ReplQ, Downstreams, wbuf, wire, asked, sock, stdout,
                   sigint, nin>>


\* finally: Server.shutdown() has returned, and Server_thread.join().
FinallyServer ==
    /\ mainPc = "finally"
    /\ ~sigint
    /\ mainPc' = "close"
    /\ UNCHANGED <<cfgVars, callVars, bcast, loadVars, clockVars, busVars, phase, token, ntok, result, rdVars, hVars,
                   Quit, QS, ReplQ, Downstreams, wbuf, wire, asked, sock, stdout,
                   serverUp, sigint, nin>>

\* finally: Conn['sock'].close() or os.close(Conn['fd']).
FinallyClose ==
    /\ mainPc = "close"
    /\ ~sigint
    /\ mainPc' = "join"
    /\ UNCHANGED <<cfgVars, callVars, bcast, loadVars, clockVars, busVars, phase, token, ntok, result, rdVars, hVars,
                   Quit, QS, ReplQ, Downstreams, wbuf, wire, asked, sock, stdout,
                   serverUp, sigint, nin>>

\* The read_serial thread has ended, by its return or by an exception.
ReaderOver ==
    rdPc \in {"quit", "dead", "ioerror", "valueerror", "typeerror", "runtimeerror",
              "keyerror"}

\* finally: th_serial.join() returns when the reader thread has ended.
FinallyJoin ==
    /\ mainPc = "join"
    /\ ~sigint
    /\ ReaderOver
    /\ mainPc' = "unlink"
    /\ UNCHANGED <<cfgVars, callVars, bcast, loadVars, clockVars, busVars, phase, token, ntok, result, rdVars, hVars,
                   Quit, QS, ReplQ, Downstreams, wbuf, wire, asked, sock, stdout,
                   serverUp, sigint, nin>>

\* finally: the files of Cleanup_Unlink are unlinked, main() returns and
\* the process exits with code 0.
FinallyUnlink ==
    /\ mainPc = "unlink"
    /\ ~sigint
    /\ mainPc' = "exit0"
    /\ UNCHANGED <<cfgVars, callVars, bcast, loadVars, clockVars, busVars, phase, token, ntok, result, rdVars, hVars,
                   Quit, QS, ReplQ, Downstreams, wbuf, wire, asked, sock, stdout,
                   serverUp, sigint, nin>>

\* KeyboardInterrupt inside the finally clause.  os.close(Conn['fd']) and
\* th_serial.join() sit in `try: ... except KeyboardInterrupt: pass`: the
\* call is given up and the clause goes on.  Everywhere else in the clause
\* the exception leaves main().
FinallySigint ==
    /\ sigint
    /\ InFinally
    /\ sigint' = FALSE
    /\ mainPc' = IF mainPc = "join" THEN "unlink"
                 ELSE IF mainPc = "close" /\ ~is_socket THEN "join"
                 ELSE "killed"
    /\ UNCHANGED <<cfgVars, callVars, bcast, loadVars, clockVars, busVars, phase, token, ntok, result, rdVars, hVars,
                   Quit, QS, ReplQ, Downstreams, wbuf, wire, asked, sock, stdout,
                   serverUp, nin>>

(***************************************************************************)
(* The MQTT bridge.                                                        *)
(***************************************************************************)
\* The orders in which a loop over the set S may visit it.
Orders(S) ==
    { o \in [1..Cardinality(S) -> S] :
        \A i, j \in 1..Cardinality(S) : i # j => o[i] # o[j] }

Calls(op, topics) == [i \in 1..Len(topics) |-> [op |-> op, topic |-> topics[i]]]

\* dev_cmd_pub: the calls made on the paho client.
dev_cmd_pub(cmd) ==
    IF Len(cmd) # 4 \/ paho = "none" THEN <<>>
    ELSE <<[op |-> "publish", topic |-> cmd[3]]>>

\* dev_cmd_sub: the new Subscriptions, and the calls made on the paho client.
dev_cmd_sub(cmd) ==
    IF Len(cmd) # 3 THEN [subs |-> Subscriptions, calls |-> <<>>]
    ELSE [subs |-> Subscriptions \cup {cmd[3]},
          calls |-> IF paho = "none" THEN <<>> ELSE Calls("subscribe", <<cmd[3]>>)]

\* A bridge whose `unsub | *` unsubscribes the topics and keeps the set.
dev_cmd_unsub_kept(cmd, o) ==
    IF Len(cmd) # 3 THEN [subs |-> Subscriptions, calls |-> <<>>]
    ELSE IF cmd[3] = B_star
    THEN [subs |-> Subscriptions,
          calls |-> IF paho = "none" THEN <<>> ELSE Calls("unsubscribe", o)]
    ELSE [subs |-> Subscriptions \ {cmd[3]},
          calls |-> IF paho = "none" THEN <<>>
                    ELSE Calls("unsubscribe", <<cmd[3]>>)]

\* dev_cmd_unsub, its loop over Subscriptions running in the order o: the
\* new Subscriptions, and the calls made on the paho client.
dev_cmd_unsub(cmd, o) ==
    IF Len(cmd) # 3 THEN [subs |-> Subscriptions, calls |-> <<>>]
    ELSE IF cmd[3] = B_star
    THEN [subs |-> {},
          calls |-> IF paho = "none" THEN <<>> ELSE Calls("unsubscribe", o)]
    ELSE [subs |-> Subscriptions \ {cmd[3]},
          calls |-> IF paho = "none" THEN <<>>
                    ELSE Calls("unsubscribe", <<cmd[3]>>)]

\* on_message: the bus delivers a message of a topic that was subscribed;
\* write_command(Conn['fd'], "noret", "msg", topic, payload) up to os.write.
BusMessage ==
    /\ paho = "running"
    /\ ~Exited
    /\ wbuf[BusTh] = <<>>
    /\ E_topic \in subscribed
    /\ nin < MaxInputs
    /\ nin' = nin + 1
    /\ wbuf' = [wbuf EXCEPT ![BusTh] =
                    Pending(BusTh, <<B_noret, B_msg, E_topic, E_payload>>)]
    /\ UNCHANGED <<cfgVars, callVars, bcast, loadVars, clockVars, busVars, mainVars, rdVars, hVars, Quit, QS, ReplQ,
                   Downstreams, wire, asked, sock, stdout, serverUp, sigint>>

\* on_connect_v1 / on_connect_v2 with a success code enters
\* resubscribe_topics: `for topic in Subscriptions` makes the iterator of
\* the set, which notes the size of the set.  The callback runs on the
\* thread of the paho client.
BusConnect ==
    /\ paho = "running"
    /\ ~Exited
    /\ ~replay.on
    /\ nin < MaxInputs
    /\ nin' = nin + 1
    /\ replay' = [on |-> TRUE, had |-> Subscriptions,
                  used |-> Cardinality(Subscriptions), seen |-> {},
                  calls |-> <<>>, error |-> FALSE]
    /\ UNCHANGED <<cfgVars, callVars, bcast, loadVars, clockVars, Subscriptions, paho, busLog, subscribed,
                   mainVars, rdVars, hVars, Quit, QS, ReplQ, Downstreams, wbuf, wire,
                   asked, sock, stdout, serverUp, sigint>>

\* The loop of resubscribe_topics takes the next topic from the iterator.
\* The reader thread adds to the set and removes from it meanwhile, with no
\* lock: an iterator that finds the size of the set changed raises
\* RuntimeError, which ends the callback; when the size is the same it goes
\* on over the table as it is now, where it comes to every topic that was
\* there from the start and to some of the topics added since.
BusResubscribe ==
    /\ replay.on
    /\ ~Exited
    /\ IF Cardinality(Subscriptions) # replay.used
       THEN /\ replay' = [replay EXCEPT !.on = FALSE, !.error = TRUE]
            /\ subscribed' = subscribed
       ELSE \/ \E t \in Subscriptions \ replay.seen :
                /\ replay' = [replay EXCEPT
                                !.seen = @ \cup {t},
                                !.calls = Append(@, [op |-> "subscribe", topic |-> t])]
                /\ subscribed' = subscribed \cup {t}
            \/ /\ (replay.had \cap Subscriptions) \subseteq replay.seen
               /\ replay' = [replay EXCEPT !.on = FALSE]
               /\ subscribed' = subscribed
    /\ UNCHANGED <<cfgVars, callVars, bcast, loadVars, clockVars, Subscriptions, paho, busLog, mainVars,
                   rdVars, hVars, Quit, QS, ReplQ, Downstreams, wbuf, wire, asked, sock,
                   stdout, serverUp, sigint, nin>>

(***************************************************************************)
(* The router: read_serial and process_serial_packet.                      *)
(***************************************************************************)
Range(f) == { f[i] : i \in DOMAIN f }

\* Tokens the device answers to: sched, and the tokens of the frames it was
\* sent that ask for an answer.
DeviceTokens ==
    ({B_sched} \cup asked) \ {B_noret, B_empty}

\* Frames the upstream sends.  An upstream luatt.py never forwards the
\* MQTT verbs; a device does send them.
DeviceFrames ==
    { <<t, B_ret, E_42>> : t \in DeviceTokens }
    \cup { <<t, E_out, E_hi>> : t \in DeviceTokens }
    \cup { <<B_sched, B_version, E_v1>>, <<E_boot>> }
    \cup (IF is_socket THEN {}
          ELSE { <<B_noret, B_sub, E_topic>>, <<B_noret, B_unsub, B_star>>,
                 <<B_noret, B_unsub, E_topic>>,
                 <<B_noret, B_pub, E_topic, E_payload>> })

BusVerbs == {B_pub, B_sub, B_unsub}

\* The line process_serial_packet writes to sys.stdout for a packet whose
\* token is not in QS: "\033[2K\r" + body + "\n" at a terminal.
DefaultLine(pkt) ==
    (IF Enable_REPL THEN <<27, 91, 50, 75, 13>> ELSE <<>>)
    \o Join([i \in 1..(Len(pkt) - 1) |-> decode_or_repr(pkt[i + 1])], <<124>>)
    \o <<10>>

\* A router that puts the packet at the head of the queue.
QPut_front(q, n, pkt) == <<[n |-> n, pkt |-> pkt]>> \o q

\* A router that drops the packet instead of queueing it.
QPut_lost(q, n, pkt) == q

\* q.put(packet)
QPut(q, n, pkt) == Append(q, [n |-> n, pkt |-> pkt])

\* os.write on a downstream fd succeeds while its connection is open at
\* both ends; on a closed fd or a closed peer it raises OSError.
Writable(fd) == hPc[fd] = "run"

\* What write_command(Downstreams[ds], *packet) gives the fd.
DownWrites(n, pkt) ==
    [i \in 1..Len(write_command(pkt)) |->
        [n |-> n, frame |-> pkt, data |-> write_command(pkt)[i]]]

\* `for ds in Downstreams: write_command(Downstreams[ds], *packet)`:
\* the sockets after the loop, and whether it ran to its end.
RECURSIVE Broadcast(_, _, _)
Broadcast(ds, socks, w) ==
    IF ds = <<>> THEN [sock |-> socks, ok |-> TRUE]
    ELSE IF ~Writable(Head(ds)[2]) THEN [sock |-> socks, ok |-> FALSE]
    ELSE Broadcast(Tail(ds),
                   [socks EXCEPT ![Head(ds)[2]] = [cnt |-> @.cnt + 1, w |-> w]], w)

\* A router that broadcasts whatever it read.
BroadcastTargets_all(pkt) == Downstreams

\* The entries of Downstreams the broadcast of a packet visits: all of
\* them for a packet that was routed, none for the others.
BroadcastTargets(pkt) ==
    IF Len(pkt) < 2 \/ coerce_string(pkt[2]) \in BusVerbs THEN <<>> ELSE Downstreams

\* read_serial: read_packet returned pkt; process_serial_packet(pkt).
ReadPacket(pkt) ==
    /\ rdPc = "run"
    /\ ~Quit
    /\ ~Exited
    /\ nin < MaxInputs
    /\ (Len(pkt) >= 2 /\ coerce_string(pkt[2]) \notin BusVerbs /\ coerce_string(pkt[1]) \in QS)
          => Len(ReplQ) < ReplQMax
    /\ nin' = nin + 1
    /\ nread' = nread + 1
    /\ packet' = pkt
    /\ IF Len(pkt) < 2
       THEN UNCHANGED <<busVars, ReplQ, stdout>>
       ELSE IF coerce_string(pkt[2]) = B_pub
       THEN /\ busLog' = dev_cmd_pub(pkt)
            /\ UNCHANGED <<Subscriptions, paho, subscribed, replay, ReplQ, stdout>>
       ELSE IF coerce_string(pkt[2]) = B_sub
       THEN /\ Subscriptions' = dev_cmd_sub(pkt).subs
            /\ busLog' = dev_cmd_sub(pkt).calls
            /\ subscribed' = IF paho = "running"
                             THEN subscribed \cup
                                    { c.topic : c \in Range(dev_cmd_sub(pkt).calls) }
                             ELSE subscribed
            /\ UNCHANGED <<paho, replay, ReplQ, stdout>>
       ELSE IF coerce_string(pkt[2]) = B_unsub
       THEN /\ \E o \in Orders(Subscriptions) :
                  /\ Subscriptions' = dev_cmd_unsub(pkt, o).subs
                  /\ busLog' = dev_cmd_unsub(pkt, o).calls
            /\ UNCHANGED <<paho, subscribed, replay, ReplQ, stdout>>
       ELSE /\ IF coerce_string(pkt[1]) \in QS
               THEN /\ ReplQ' = QPut(ReplQ, nread + 1, pkt)
                    /\ stdout' = stdout
               ELSE /\ stdout' = Write(stdout, DefaultLine(pkt))
                    /\ ReplQ' = ReplQ
            /\ UNCHANGED busVars
    /\ LET b == Broadcast(BroadcastTargets(pkt), sock, DownWrites(nread + 1, pkt)) IN
          /\ sock' = b.sock
          /\ rdPc' = IF b.ok THEN "run" ELSE "dead"
    /\ UNCHANGED <<cfgVars, callVars, bcast, loadVars, clockVars, mainVars, hVars, Quit, QS, Downstreams, wbuf, wire, asked,
                   serverUp, sigint>>

\* read_serial: read_packet returned None on end of file or a read error:
\* Quit = True.
ReadEOF ==
    /\ rdPc = "run"
    /\ ~Quit
    /\ ~Exited
    /\ nin < MaxInputs
    /\ nin' = nin + 1
    /\ Quit' = TRUE
    /\ rdPc' = "kill"
    /\ UNCHANGED <<cfgVars, callVars, bcast, loadVars, clockVars, busVars, mainVars, nread, packet, hVars, QS, ReplQ,
                   Downstreams, wbuf, wire, asked, sock, stdout, serverUp, sigint>>

\* read_serial with Conn['fd'] None: select.select([None], [], [], 1.0) in
\* read_packet_line raises TypeError, which the `except OSError` of
\* read_packet does not catch: the thread ends.
ReadBadFd ==
    /\ rdPc = "badfd"
    /\ ~Exited
    /\ rdPc' = "typeerror"
    /\ UNCHANGED <<cfgVars, callVars, bcast, loadVars, clockVars, busVars, mainVars, nread, packet, hVars, Quit,
                   QS, ReplQ, Downstreams, wbuf, wire, asked, sock, stdout, serverUp,
                   sigint, nin>>

\* read_serial: os.read or select raises OSError inside read_packet_bytes,
\* while the raw trailer of a frame is read.  read_packet calls it outside
\* its try block: the exception leaves read_serial and the thread ends,
\* with Quit as it was and no signal sent.
ReadBytesError ==
    /\ rdPc = "run"
    /\ ~Quit
    /\ ~Exited
    /\ nin < MaxInputs
    /\ nin' = nin + 1
    /\ rdPc' = "ioerror"
    /\ UNCHANGED <<cfgVars, callVars, bcast, loadVars, clockVars, busVars, mainVars, nread, packet, hVars, Quit, QS, ReplQ,
                   Downstreams, wbuf, wire, asked, sock, stdout, serverUp, sigint>>

\* int(b) of Python for a bytes object b: white space around, a sign,
\* decimal digits with single underscores between them.  ok is FALSE where
\* int() raises ValueError.
IsSpace(c) == c \in (9..13) \cup {32}

IsDigit(c) == c \in 48..57

RECURSIVE Strip(_)
Strip(b) ==
    IF b = <<>> THEN b
    ELSE IF IsSpace(Head(b)) THEN Strip(Tail(b))
    ELSE IF IsSpace(b[Len(b)]) THEN Strip(SubSeq(b, 1, Len(b) - 1))
    ELSE b

RECURSIVE DigitsValue(_)
DigitsValue(d) ==
    IF d = <<>> THEN 0
    ELSE IF d[Len(d)] = 95 THEN DigitsValue(SubSeq(d, 1, Len(d) - 1))
    ELSE 10 * DigitsValue(SubSeq(d, 1, Len(d) - 1)) + (d[Len(d)] - 48)

PyInt(b) ==
    LET t == Strip(b)
        signed == t # <<>> /\ t[1] \in {43, 45}
        d == IF signed THEN Tail(t) ELSE t
        ok == /\ d # <<>>
              /\ \A i \in 1..Len(d) :
                    \/ IsDigit(d[i])
                    \/ /\ d[i] = 95
                       /\ 1 < i /\ i < Len(d)
                       /\ IsDigit(d[i - 1]) /\ IsDigit(d[i + 1])
    IN  [ok |-> ok,
         n |-> IF ~ok THEN 0
               ELSE IF t[1] = 45 THEN 0 - DigitsValue(d) ELSE DigitsValue(d)]

\* The slices b[:n] and b[n:] of Python, for any integer n.
SliceTo(b, n) ==
    LET k == IF n < 0 THEN (IF Len(b) + n < 0 THEN 0 ELSE Len(b) + n)
             ELSE (IF n > Len(b) THEN Len(b) ELSE n)
    IN  SubSeq(b, 1, k)

SliceFrom(b, n) ==
    LET k == IF n < 0 THEN (IF Len(b) + n < 0 THEN 0 ELSE Len(b) + n)
             ELSE (IF n > Len(b) THEN Len(b) ELSE n)
    IN  SubSeq(b, k + 1, Len(b))

\* A read_packet_bytes that leaves the newline after the trailer in the
\* buffered input.
read_packet_bytes_buffered_noskip(n, partial) ==
    [field |-> SliceTo(partial, n), partial |-> SliceFrom(partial, n)]

\* read_packet_bytes(fd, n, partial) where it answers from the buffered
\* input alone, len(partial) >= n + 1: (partial[:n], partial[n+1:]).
read_packet_bytes_buffered(n, partial) ==
    [field |-> SliceTo(partial, n), partial |-> SliceFrom(partial, n + 1)]

\* The place of the first byte c in b, or 0.
RECURSIVE IndexOf(_, _)
IndexOf(b, c) ==
    IF b = <<>> THEN 0
    ELSE IF Head(b) = c THEN 1
    ELSE IF IndexOf(Tail(b), c) = 0 THEN 0
    ELSE 1 + IndexOf(Tail(b), c)

\* b.split(sep)
RECURSIVE Split(_, _)
Split(b, sep) ==
    IF IndexOf(b, sep) = 0 THEN <<b>>
    ELSE <<SubSeq(b, 1, IndexOf(b, sep) - 1)>>
         \o Split(SubSeq(b, IndexOf(b, sep) + 1, Len(b)), sep)

\* What a read function of the decoder answers.  chunks is what the
\* os.read calls still to come will return, in order; an empty chunk is
\* the end of file, and with no chunk left the select never finds the fd
\* readable and the function stays in its loop ("blocked").
Got(v, partial, chunks) ==
    [st |-> "ok", v |-> v, partial |-> partial, chunks |-> chunks]

NotGot(st, chunks) == [st |-> st, v |-> <<>>, partial |-> <<>>, chunks |-> chunks]

\* The loop of read_packet_line, line being b''.join(line).
RECURSIVE read_packet_line_loop(_, _)
read_packet_line_loop(line, chunks) ==
    IF chunks = <<>> THEN NotGot("blocked", chunks)
    ELSE IF Head(chunks) = <<>> THEN NotGot("none", Tail(chunks))
    ELSE IF IndexOf(Head(chunks), 10) = 0
    THEN read_packet_line_loop(line \o Head(chunks), Tail(chunks))
    ELSE Got(line \o SubSeq(Head(chunks), 1, IndexOf(Head(chunks), 10) - 1),
             SubSeq(Head(chunks), IndexOf(Head(chunks), 10) + 1, Len(Head(chunks))),
             Tail(chunks))

\* read_packet_line(fd, partial)
read_packet_line(partial, chunks) ==
    IF IndexOf(partial, 10) # 0
    THEN Got(SubSeq(partial, 1, IndexOf(partial, 10) - 1),
             SubSeq(partial, IndexOf(partial, 10) + 1, Len(partial)), chunks)
    ELSE read_packet_line_loop(partial, chunks)

\* The loop of read_packet_bytes, n being what it has counted down to, and
\* its return (line[:n], line[n:][1:]).
RECURSIVE read_packet_bytes_loop(_, _, _)
read_packet_bytes_loop(line, n, chunks) ==
    IF n >= 0
    THEN IF chunks = <<>> THEN NotGot("blocked", chunks)
         ELSE IF Head(chunks) = <<>> THEN NotGot("none", Tail(chunks))
         ELSE read_packet_bytes_loop(line \o Head(chunks), n - Len(Head(chunks)),
                                     Tail(chunks))
    ELSE Got(SliceTo(line, n), SliceFrom(SliceFrom(line, n), 1), chunks)

\* read_packet_bytes(fd, n, partial)
read_packet_bytes(n, partial, chunks) ==
    IF Len(partial) >= n + 1
    THEN Got(read_packet_bytes_buffered(n, partial).field,
             read_packet_bytes_buffered(n, partial).partial, chunks)
    ELSE read_packet_bytes_loop(partial, n - Len(partial), chunks)

\* The loop of read_packet over the fields of the header line: fs are the
\* header fields still to come, fields the ones decoded.
RECURSIVE read_packet_fields(_, _, _, _)
read_packet_fields(fs, fields, partial, chunks) ==
    IF fs = <<>> THEN Got(fields, partial, chunks)
    ELSE IF SliceTo(Head(fs), 1) = <<38>>
    THEN IF ~PyInt(Tail(Head(fs))).ok THEN NotGot("valueerror", chunks)
         ELSE LET v == read_packet_bytes(PyInt(Tail(Head(fs))).n, partial, chunks) IN
              IF v.st # "ok" THEN v
              ELSE read_packet_fields(Tail(fs), Append(fields, v.v), v.partial, v.chunks)
    ELSE read_packet_fields(Tail(fs), Append(fields, Head(fs)), partial, chunks)

\* read_packet(fd, partial): v is the list of fields.
read_packet(partial, chunks) ==
    LET l == read_packet_line(partial, chunks) IN
    IF l.st # "ok" THEN l
    ELSE read_packet_fields(Split(l.v, 124), <<>>, l.partial, l.chunks)

\* The loop of read_serial over a stream: partial = b''; packet, partial =
\* read_packet(fd, partial), as long as read_packet returns a packet.
RECURSIVE read_stream(_, _, _)
read_stream(partial, chunks, packets) ==
    LET v == read_packet(partial, chunks) IN
    IF v.st = "ok" THEN read_stream(v.partial, v.chunks, Append(packets, v.v))
    ELSE [st |-> v.st, packets |-> packets, partial |-> partial]

\* What follows the "&" of a header field that counts no raw trailer: no
\* number, nothing, a negative number.
MalformedCounts == { <<120>>, <<>>, <<45, 53>>, <<49, 120>> }

\* read_serial: the upstream sends the header line sched|out|&f with f a
\* malformed count, and nothing is buffered behind it.  Where int(f)
\* raises ValueError, in read_packet outside its try block, the exception
\* leaves read_serial and the thread ends.  Where int(f) is negative,
\* read_packet_bytes answers at once from the buffered input and the
\* packet goes to process_serial_packet with that field.
ReadMalformed(f) ==
    IF PyInt(f).ok
    THEN /\ PyInt(f).n < 0
         /\ ReadPacket(<<B_sched, E_out,
                         read_packet_bytes_buffered(PyInt(f).n, <<>>).field>>)
    ELSE /\ rdPc = "run"
         /\ ~Quit
         /\ ~Exited
         /\ nin < MaxInputs
         /\ nin' = nin + 1
         /\ rdPc' = "valueerror"
         /\ UNCHANGED <<cfgVars, callVars, bcast, loadVars, clockVars, busVars, mainVars, nread, packet, hVars, Quit, QS,
                        ReplQ, Downstreams, wbuf, wire, asked, sock, stdout,
                        serverUp, sigint>>

\* read_serial: signal.pthread_kill(MainThread, signal.SIGINT), and the
\* thread ends.
ReadKill ==
    /\ rdPc = "kill"
    /\ ~Exited
    /\ sigint' = TRUE
    /\ rdPc' = "quit"
    /\ UNCHANGED <<cfgVars, callVars, bcast, loadVars, clockVars, busVars, mainVars, nread, packet, hVars, Quit, QS,
                   ReplQ, Downstreams, wbuf, wire, asked, sock, stdout, serverUp, nin>>

\* read_serial sees Quit: from read_packet_line (None: the main thread is
\* sent SIGINT) or from the test of its loop.
ReadQuit ==
    /\ rdPc = "run"
    /\ Quit
    /\ ~Exited
    /\ rdPc' = "quit"
    /\ \E s \in {sigint, TRUE} : sigint' = s
    /\ UNCHANGED <<cfgVars, callVars, bcast, loadVars, clockVars, busVars, mainVars, nread, packet, hVars, Quit, QS,
                   ReplQ, Downstreams, wbuf, wire, asked, sock, stdout, serverUp, nin>>


(***************************************************************************)
(* The attach server: one SocketHandler.handle thread per connection.      *)
(***************************************************************************)
\* The dict Downstreams, kept in insertion order.
HasKey(d, k) == \E i \in 1..Len(d) : d[i][1] = k

Keys(d) == { d[i][1] : i \in 1..Len(d) }

\* del d[k]
DictDel(d, k) == SelectSeq(d, LAMBDA e : e[1] # k)

\* d[k] = v: a key that is there keeps its place.
DictSet(d, k, v) ==
    IF HasKey(d, k) THEN [i \in 1..Len(d) |-> IF d[i][1] = k THEN <<k, v>> ELSE d[i]]
    ELSE Append(d, <<k, v>>)

\* A handler that installs every token.
Routable_all(tok) == TRUE

\* The token of a packet is installed in Downstreams unless it is "" or
\* "noret".
Routable(tok) == tok # B_empty /\ tok # B_noret

\* Tokens a client sends: none, noret, tokens of its own making (two
\* clients may make the same one), and the token of the frame it was sent
\* last.
ClientTokens(fd) ==
    {B_empty, B_noret, E_D1, E_D2} \cup { w.frame[1] : w \in Range(sock[fd].w) }

ClientFrames(fd) ==
    { IF t = B_noret THEN <<t, B_reconnect, B_ppid>> ELSE <<t, B_eval, E_line>> :
        t \in ClientTokens(fd) }

\* The server accepts a connection; the socket gets the lowest free fd, and
\* a handler thread starts.
Connect(fd) ==
    /\ serverUp
    /\ ~Exited
    /\ hPc[fd] \notin {"run", "eof"}
    /\ \A g \in Fds : g < fd => hPc[g] \in {"run", "eof"}
    /\ hPc' = [hPc EXCEPT ![fd] = "run"]
    /\ last_token' = [last_token EXCEPT ![fd] = None]
    /\ hpacket' = [hpacket EXCEPT ![fd] = <<>>]
    /\ sock' = [sock EXCEPT ![fd] = [cnt |-> 0, w |-> <<>>]]
    /\ UNCHANGED <<cfgVars, callVars, bcast, loadVars, clockVars, busVars, mainVars, rdVars, Quit, QS, ReplQ,
                   Downstreams, wbuf, wire, asked, stdout, serverUp, sigint, nin>>

\* One turn of the loop of handle(): read_packet returned pkt.  The entry
\* of last_token is deleted (KeyError when it is not there: the thread ends
\* and the server closes the socket), the token of pkt is installed, and
\* the packet is forwarded upstream (write_command up to its os.write).
HandlePacket(fd, pkt) ==
    /\ hPc[fd] = "run"
    /\ wbuf[fd] = <<>>
    /\ nin < MaxInputs
    /\ nin' = nin + 1
    /\ hpacket' = [hpacket EXCEPT ![fd] = pkt]
    /\ IF last_token[fd] # None /\ ~HasKey(Downstreams, last_token[fd])
       THEN /\ hPc' = [hPc EXCEPT ![fd] = "keyerror"]
            /\ UNCHANGED <<last_token, Downstreams, wbuf>>
       ELSE /\ hPc' = hPc
            /\ LET d == IF last_token[fd] # None
                        THEN DictDel(Downstreams, last_token[fd])
                        ELSE Downstreams IN
               IF Routable(coerce_string(pkt[1]))
               THEN /\ Downstreams' = DictSet(d, coerce_string(pkt[1]), fd)
                    /\ last_token' = [last_token EXCEPT ![fd] = coerce_string(pkt[1])]
               ELSE /\ Downstreams' = d
                    /\ last_token' = [last_token EXCEPT ![fd] = None]
            /\ wbuf' = [wbuf EXCEPT ![fd] = Pending(fd, pkt)]
    /\ UNCHANGED <<cfgVars, callVars, bcast, loadVars, clockVars, busVars, mainVars, rdVars, Quit, QS, ReplQ, wire, asked,
                   sock, stdout, serverUp, sigint>>

\* The client sends a header line with a field "&" followed by something
\* that is no number: int() raises ValueError in read_packet, which leaves
\* handle(); the server closes the socket.
HandleMalformed(fd) ==
    /\ hPc[fd] = "run"
    /\ wbuf[fd] = <<>>
    /\ nin < MaxInputs
    /\ nin' = nin + 1
    /\ hPc' = [hPc EXCEPT ![fd] = "crashed"]
    /\ UNCHANGED <<cfgVars, callVars, bcast, loadVars, clockVars, busVars, mainVars, rdVars, last_token, hpacket, Quit, QS,
                   ReplQ, Downstreams, wbuf, wire, asked, sock, stdout, serverUp,
                   sigint>>

\* The client closes its end of the connection.
ClientClose(fd) ==
    /\ hPc[fd] = "run"
    /\ nin < MaxInputs
    /\ nin' = nin + 1
    /\ hPc' = [hPc EXCEPT ![fd] = "eof"]
    /\ UNCHANGED <<cfgVars, callVars, bcast, loadVars, clockVars, busVars, mainVars, rdVars, last_token, hpacket, Quit, QS,
                   ReplQ, Downstreams, wbuf, wire, asked, sock, stdout, serverUp,
                   sigint>>

\* The end of handle(): read_packet returned None (end of file, or Quit),
\* or the loop test saw Quit.  The entry of last_token is deleted, with
\* KeyError when it is not there; the server closes the socket.
HandleEnd(fd) ==
    /\ \/ hPc[fd] = "eof"
       \/ hPc[fd] = "run" /\ Quit
    /\ wbuf[fd] = <<>>
    /\ IF last_token[fd] # None /\ ~HasKey(Downstreams, last_token[fd])
       THEN /\ hPc' = [hPc EXCEPT ![fd] = "keyerror"]
            /\ Downstreams' = Downstreams
       ELSE /\ hPc' = [hPc EXCEPT ![fd] = "done"]
            /\ Downstreams' = IF last_token[fd] # None
                              THEN DictDel(Downstreams, last_token[fd])
                              ELSE Downstreams
    /\ UNCHANGED <<cfgVars, callVars, bcast, loadVars, clockVars, busVars, mainVars, rdVars, last_token, hpacket, Quit,
                   QS, ReplQ, wbuf, wire, asked, sock, stdout, serverUp, sigint, nin>>

\* read_serial: read_packet returned a packet that process_serial_packet
\* routes (to the queue, or to sys.stdout), and the loop `for ds in
\* Downstreams` begins: the iterator of the dict notes its size.  The
\* handler threads run between the turns of the loop.
ReadPacketBegin(pkt) ==
    /\ rdPc = "run"
    /\ ~Quit
    /\ ~Exited
    /\ nin < MaxInputs
    /\ Len(pkt) >= 2
    /\ coerce_string(pkt[2]) \notin BusVerbs
    /\ coerce_string(pkt[1]) \in QS => Len(ReplQ) < ReplQMax
    /\ nin' = nin + 1
    /\ nread' = nread + 1
    /\ packet' = pkt
    /\ IF coerce_string(pkt[1]) \in QS
       THEN /\ ReplQ' = QPut(ReplQ, nread + 1, pkt)
            /\ stdout' = stdout
       ELSE /\ stdout' = Write(stdout, DefaultLine(pkt))
            /\ ReplQ' = ReplQ
    /\ bcast' = [on |-> TRUE, used |-> Len(Downstreams),
                 todo |-> [i \in 1..Len(Downstreams) |-> Downstreams[i][1]],
                 n |-> nread + 1, pkt |-> pkt]
    /\ rdPc' = "bcast"
    /\ UNCHANGED <<cfgVars, callVars, loadVars, clockVars, busVars, mainVars, hVars, Quit, QS,
                   Downstreams, wbuf, wire, asked, sock, serverUp, sigint>>

\* One turn of the loop `for ds in Downstreams: write_command(
\* Downstreams[ds], *packet)`.  No lock is held: when a handler has changed
\* the size of the dict the iterator raises RuntimeError; when the key it
\* comes to was deleted and another one installed, the iterator passes
\* over it, or Downstreams[ds] raises KeyError when the key went after the
\* iterator gave it.  Either exception leaves read_serial and the thread
\* ends.  os.write on a closed connection raises OSError.
BroadcastStep ==
    /\ rdPc = "bcast"
    /\ ~Exited
    /\ IF Len(Downstreams) # bcast.used
       THEN /\ rdPc' = "runtimeerror"
            /\ bcast' = NoBroadcast
            /\ sock' = sock
       ELSE IF bcast.todo = <<>>
       THEN /\ rdPc' = "run"
            /\ bcast' = NoBroadcast
            /\ sock' = sock
       ELSE IF ~HasKey(Downstreams, Head(bcast.todo))
       THEN \/ /\ rdPc' = "keyerror"
               /\ bcast' = NoBroadcast
               /\ sock' = sock
            \/ /\ rdPc' = rdPc
               /\ bcast' = [bcast EXCEPT !.todo = Tail(@)]
               /\ sock' = sock
       ELSE LET fd == (CHOOSE i \in 1..Len(Downstreams) :
                          Downstreams[i][1] = Head(bcast.todo)) IN
            IF ~Writable(Downstreams[fd][2])
            THEN /\ rdPc' = "dead"
                 /\ bcast' = NoBroadcast
                 /\ sock' = sock
            ELSE /\ rdPc' = rdPc
                 /\ bcast' = [bcast EXCEPT !.todo = Tail(@)]
                 /\ sock' = [sock EXCEPT ![Downstreams[fd][2]] =
                                [cnt |-> @.cnt + 1, w |-> DownWrites(bcast.n, bcast.pkt)]]
    /\ UNCHANGED <<cfgVars, callVars, loadVars, clockVars, busVars, mainVars, nread, packet,
                   hVars, Quit, QS, ReplQ, Downstreams, wbuf, wire, asked, stdout,
                   serverUp, sigint, nin>>

(***************************************************************************)
(* Functions called by themselves.                                         *)
(***************************************************************************)
\* The state of the process, which a function without side effects leaves
\* alone.
procVars == <<cfgVars, bcast, loadVars, clockVars, busVars, mainVars, rdVars, hVars, Quit, QS,
              ReplQ, Downstreams, wbuf, wire, asked, sock, stdout, serverUp, sigint,
              nin>>

\* luatt.py is imported and nothing has run.
Imported ==
    /\ Fresh
    /\ ~Enable_REPL
    /\ paho = "none"
    /\ mainPc = "boot"
    /\ Conn_fd = "unset"
    /\ is_socket = FALSE
    /\ ret = <<>>

\* The call of fn returns r.
Return(fn, r) ==
    /\ arg.fn = fn
    /\ ret = <<>>
    /\ ret' = <<r>>
    /\ UNCHANGED <<arg, procVars>>

\* Bytes of every class the codec tells apart: newline, a control byte,
\* space, '&', a letter, '|', '~', DEL, a byte above 0x7E.
FieldBytes == {10, 31, 32, 38, 65, 124, 126, 127, 255}

\* The byte strings of up to n bytes.
BytesUpTo(n) == UNION { [1..k -> FieldBytes] : k \in 0..n }

\* escape_arg(bstr)
Call_escape_arg == Return("escape_arg", escape_arg(arg.bstr))

\* Bytes of the classes the two sides of the codec tell apart: newline,
\* '&', a letter, '|', a byte above 0x7E.
CodecBytes == {10, 38, 65, 124, 255}

\* The frames of up to MaxFields fields, the token first, every field of
\* up to MaxArg bytes.
CodecFrames ==
    UNION { [1..k -> UNION { [1..m -> CodecBytes] : m \in 0..MaxArg }] : k \in 1..MaxFields }

\* write_command(fd, *F), and read_packet at the other end of fd, which
\* gets what was written with one os.read.
Call_codec == Return("codec", read_packet(<<>>, write_command(arg.F)))

InitCodec ==
    /\ Imported
    /\ arg \in { [fn |-> "codec", F |-> f] : f \in CodecFrames }

SpecCodec == InitCodec /\ [][Call_codec]_vars

\* The byte string b cut into chunks after the places of C.
RECURSIVE Chop(_, _)
Chop(b, C) ==
    IF C = {} THEN <<b>>
    ELSE LET m == CHOOSE x \in C : \A y \in C : x <= y IN
         <<SubSeq(b, 1, m)>> \o Chop(SubSeq(b, m + 1, Len(b)), { y - m : y \in C \ {m} })

\* The ways to cut a stream of n bytes into at most MaxCuts + 1 chunks.
Cuts(n) == { Range(c) \ {0} : c \in [1..MaxCuts -> 0..(n - 1)] }

\* Bytes of an argument in a stream: newline, a letter, '|'.
StreamArgBytes == {10, 65, 124}

\* Well-formed frames: the token "A", and up to one argument.
StreamFrames ==
    { <<(<<65>>)>> }
    \cup { <<(<<65>>), a>> : a \in UNION { [1..m -> StreamArgBytes] : m \in 0..MaxArg } }

\* The frames a peer writes one after the other.
StreamsOfFrames == UNION { [1..k -> StreamFrames] : k \in 1..MaxFrames }

RECURSIVE StreamBytes(_)
StreamBytes(fs) ==
    IF fs = <<>> THEN <<>> ELSE EncodeOut(Head(fs)) \o StreamBytes(Tail(fs))

\* read_serial reads the stream of the frames arg.frames, which the os.read
\* calls return as the chunks arg.chunks.
Call_read_stream == Return("read_stream", read_stream(<<>>, arg.chunks, <<>>))

InitStream ==
    /\ Imported
    /\ arg \in UNION { { [fn |-> "read_stream", frames |-> fs,
                           chunks |-> Chop(StreamBytes(fs), C)] :
                            C \in Cuts(Len(StreamBytes(fs))) } : fs \in StreamsOfFrames }

SpecStream == InitStream /\ [][Call_read_stream]_vars

\* The place of the last byte c in b, or 0.
LastIndexOf(b, c) ==
    IF \E i \in 1..Len(b) : b[i] = c
    THEN CHOOSE i \in 1..Len(b) : b[i] = c /\ \A j \in (i + 1)..Len(b) : b[j] # c
    ELSE 0

\* s.rstrip('/')
RECURSIVE RStripSlash(_)
RStripSlash(b) ==
    IF b # <<>> /\ b[Len(b)] = 47 THEN RStripSlash(SubSeq(b, 1, Len(b) - 1)) ELSE b

\* os.path.split(p): <<head, tail>>, cut after the last '/', the head
\* without its trailing slashes unless it is slashes only.
os_path_split(path) ==
    LET i == LastIndexOf(path, 47)
        head == SubSeq(path, 1, i)
    IN  <<IF RStripSlash(head) = <<>> THEN head ELSE RStripSlash(head),
          SubSeq(path, i + 1, Len(path))>>

N_Loader == <<76, 111, 97, 100, 101, 114, 46, 99, 109, 100>>   \* "Loader.cmd"
N_x == <<120, 46, 108, 117, 97>>                                \* "x.lua"

\* find_loader_cmd(z), infolist being the file names of z.infolist() in
\* the order of the archive: <<name>> of the entry returned, <<>> for None.
RECURSIVE find_loader_cmd_from(_, _)
find_loader_cmd_from(infolist, subdir_loader) ==
    IF infolist = <<>> THEN subdir_loader
    ELSE IF Head(infolist) = N_Loader THEN <<Head(infolist)>>
    ELSE IF os_path_split(Head(infolist))[2] # N_Loader
    THEN find_loader_cmd_from(Tail(infolist), subdir_loader)
    ELSE IF IndexOf(os_path_split(Head(infolist))[1], 47) # 0
    THEN find_loader_cmd_from(Tail(infolist), subdir_loader)
    ELSE IF subdir_loader # <<>> THEN <<>>
    ELSE find_loader_cmd_from(Tail(infolist), <<Head(infolist)>>)

find_loader_cmd(infolist) == find_loader_cmd_from(infolist, <<>>)

\* load_luaz(path) of an archive whose Loader.cmd has the one line
\* "x.lua": the manifest found, and the members load_data is called with,
\* os.path.join(loader_dir, src).
load_luaz(infolist) ==
    LET loader == find_loader_cmd(infolist) IN
    [loader |-> loader,
     loaded |-> IF loader = <<>> THEN <<>>
                ELSE LET loader_dir == os_path_split(loader[1])[1] IN
                     <<IF loader_dir = <<>> THEN N_x
                       ELSE IF loader_dir[Len(loader_dir)] = 47 THEN loader_dir \o N_x
                       ELSE loader_dir \o <<47>> \o N_x>>]

\* The file names of the archives: Loader.cmd at the root, in the
\* directories a and b, two directories deep, and Lua files.
EntryNames ==
    { N_Loader, <<97, 47>> \o N_Loader, <<98, 47>> \o N_Loader,
      <<97, 47, 98, 47>> \o N_Loader, N_x, <<97, 47>> \o N_x }

\* The archives of up to MaxEntries entries, in every order.
Archives ==
    UNION { { z \in [1..k -> EntryNames] : \A i, j \in 1..k : i # j => z[i] # z[j] } :
              k \in 0..MaxEntries }

Call_load_luaz == Return("load_luaz", load_luaz(arg.infolist))

InitLuaz ==
    /\ Imported
    /\ arg \in { [fn |-> "load_luaz", infolist |-> z] : z \in Archives }

SpecLuaz == InitLuaz /\ [][Call_load_luaz]_vars

(***************************************************************************)
(* strip_lua_comments: Pat_lua_comments.sub(only_newlines, lua_code).      *)
(***************************************************************************)
\* [ \t]
IsBlank(c) == c \in {32, 9}

\* The place after the run of blanks that starts at i.
RECURSIVE BlanksEnd(_, _)
BlanksEnd(s, i) ==
    IF i <= Len(s) /\ IsBlank(s[i]) THEN BlanksEnd(s, i + 1) ELSE i

\* `^` and `$` under re.MULTILINE.
BolAt(s, i) == i = 1 \/ s[i - 1] = 10

EolAt(s, i) == i = Len(s) + 1 \/ s[i] = 10

\* The end of the line that holds the place i.
RECURSIVE EolFrom(_, _)
EolFrom(s, i) == IF EolAt(s, i) THEN i ELSE EolFrom(s, i + 1)

Is(s, i, c) == i <= Len(s) /\ s[i] = c

\* A match: the place after its last character (0: no match), the
\* alternative that matched, and whether group 1, the "--" of a long
\* comment, took part.
NoMatch == [end |-> 0, alt |-> "none", dashes |-> FALSE]

Matched(e, alt, d) == [end |-> e, alt |-> alt, dashes |-> d]

\* (?:\\.|[^q])*q from the place j: the star tries a backslash with any
\* character but a newline, then any character but the quote, then leaves.
RECURSIVE QuotedFrom(_, _, _)
QuotedFrom(s, j, q) ==
    IF j > Len(s) THEN 0
    ELSE LET r1 == IF s[j] = 92 /\ j + 1 <= Len(s) /\ s[j + 1] # 10
                   THEN QuotedFrom(s, j + 2, q) ELSE 0
             r2 == IF s[j] # q THEN QuotedFrom(s, j + 1, q) ELSE 0
         IN  IF r1 # 0 THEN r1
             ELSE IF r2 # 0 THEN r2
             ELSE IF s[j] = q THEN j + 1
             ELSE 0

\* The number of '=' from the place i on.
RECURSIVE EqualsFrom(_, _)
EqualsFrom(s, i) == IF Is(s, i, 61) THEN 1 + EqualsFrom(s, i + 1) ELSE 0

\* \]\2\] at the place p, group 2 being n '='.
ClosesAt(s, p, n) ==
    /\ Is(s, p, 93)
    /\ \A k \in 1..n : Is(s, p + k, 61)
    /\ Is(s, p + n + 1, 93)

\* (?s:.)*?\]\2\] from the place p: the first place where it closes.
RECURSIVE CloseFrom(_, _, _)
CloseFrom(s, p, n) ==
    IF p > Len(s) THEN 0
    ELSE IF ClosesAt(s, p, n) THEN p + n + 2
    ELSE CloseFrom(s, p + 1, n)

\* \[(=*)\[(?s:.)*?\]\2\][ \t]* from the place k.
LongBracketFrom(s, k) ==
    IF Is(s, k, 91) /\ Is(s, k + 1 + EqualsFrom(s, k + 1), 91)
    THEN LET e == CloseFrom(s, k + 2 + EqualsFrom(s, k + 1), EqualsFrom(s, k + 1)) IN
         IF e = 0 THEN 0 ELSE BlanksEnd(s, e)
    ELSE 0

\* [ \t]*(--)?\[(=*)\[(?s:.)*?\]\2\][ \t]* at the place i.
LongAt(s, i) ==
    LET j == BlanksEnd(s, i) IN
    IF Is(s, j, 45) /\ Is(s, j + 1, 45)
    THEN Matched(LongBracketFrom(s, j + 2), "long", TRUE)
    ELSE Matched(LongBracketFrom(s, j), "long", FALSE)

\* [ \t]*(--)(?:\[=*)?(?:[^[=\n].*)?$ at the place i: after the dashes the
\* line is empty, or begins with a character that is not '[' or '=', or
\* begins with '[' and '=' signs that no '[' follows.
ShortAt(s, i) ==
    LET j == BlanksEnd(s, i)
        k == j + 2
        b == k + 1 + EqualsFrom(s, k + 1)
    IN  IF /\ Is(s, j, 45) /\ Is(s, j + 1, 45)
           /\ \/ EolAt(s, k)
              \/ s[k] \notin {91, 61}
              \/ s[k] = 91 /\ (EolAt(s, b) \/ s[b] # 91)
        THEN Matched(EolFrom(s, k), "short", FALSE)
        ELSE NoMatch

\* The alternatives of Pat_lua_comments at the place i, in their order.
MatchAt(s, i) ==
    IF s[i] = 39 /\ QuotedFrom(s, i + 1, 39) # 0
    THEN Matched(QuotedFrom(s, i + 1, 39), "string", FALSE)
    ELSE IF s[i] = 34 /\ QuotedFrom(s, i + 1, 34) # 0
    THEN Matched(QuotedFrom(s, i + 1, 34), "string", FALSE)
    ELSE IF LongAt(s, i).end # 0 THEN LongAt(s, i)
    ELSE IF ShortAt(s, i).end # 0 THEN ShortAt(s, i)
    ELSE IF BolAt(s, i) /\ IsBlank(s[i]) THEN Matched(BlanksEnd(s, i), "bol", FALSE)
    ELSE IF IsBlank(s[i]) /\ EolAt(s, BlanksEnd(s, i))
    THEN Matched(BlanksEnd(s, i), "eol", FALSE)
    ELSE IF BlanksEnd(s, i) >= i + 2 THEN Matched(BlanksEnd(s, i), "multi", FALSE)
    ELSE NoMatch

\* Pat_not_newlines.sub('', t)
not_newlines_sub(t) == SelectSeq(t, LAMBDA c : c = 10)

\* A stripper that puts one blank for every long comment.
only_newlines_long_blank(t) == <<32>>

\* only_newlines for a long comment: Pat_not_newlines.sub('', m.group())
\* or ' '.
only_newlines_long(t) == IF not_newlines_sub(t) = <<>> THEN <<32>> ELSE not_newlines_sub(t)

\* only_newlines(m), t being m.group().
only_newlines(m, t) ==
    IF m.alt = "long" /\ m.dashes THEN only_newlines_long(t)
    ELSE IF m.alt = "short" THEN not_newlines_sub(t)
    ELSE IF m.alt \in {"bol", "eol"} THEN <<>>
    ELSE IF m.alt = "multi" THEN <<32>>
    ELSE t

\* sub: the matches from left to right, none overlapping another.
RECURSIVE strip_from(_, _)
strip_from(s, i) ==
    IF i > Len(s) THEN <<>>
    ELSE IF MatchAt(s, i).end = 0 THEN <<s[i]>> \o strip_from(s, i + 1)
    ELSE only_newlines(MatchAt(s, i), SubSeq(s, i, MatchAt(s, i).end - 1))
         \o strip_from(s, MatchAt(s, i).end)

strip_lua_comments(lua_code) == strip_from(lua_code, 1)

\* Pieces of Lua code: a newline, a blank, the dashes, long brackets of
\* level 0 and 1, the quotes, a backslash, a letter, '='.
LuaPieces ==
    { <<10>>, <<32>>, <<45, 45>>, <<91, 91>>, <<93, 93>>, <<91, 61, 91>>, <<93, 61, 93>>,
      <<39>>, <<34>>, <<92>>, <<97>>, <<61>> }

RECURSIVE Concat(_)
Concat(ps) == IF ps = <<>> THEN <<>> ELSE Head(ps) \o Concat(Tail(ps))

\* The inputs: up to MaxPieces pieces one after the other.
LuaCodes == { Concat(ps) : ps \in UNION { [1..k -> LuaPieces] : k \in 0..MaxPieces } }

Call_strip_lua_comments ==
    Return("strip_lua_comments", strip_lua_comments(arg.lua_code))

InitStrip ==
    /\ Imported
    /\ arg \in { [fn |-> "strip_lua_comments", lua_code |-> c] : c \in LuaCodes }

SpecStrip == InitStrip /\ [][Call_strip_lua_comments]_vars

(***************************************************************************)
(* file_pack.py                                                            *)
(***************************************************************************)
\* The keys of Escapes that stand for themselves: string.ascii_letters,
\* string.digits and " !#$%&()*+,-./:;<=>@[]^_`{|}~.".
PlainChars ==
    (65..90) \cup (97..122) \cup (48..57)
    \cup {32, 33, 35, 36, 37, 38, 40, 41, 42, 43, 44, 45, 46, 47, 58, 59, 60, 61, 62, 64,
          91, 93, 94, 95, 96, 123, 124, 125, 126}

\* The keys of Escapes with an escape sequence of two characters, and the
\* second character: \" \' \? \\ \a \b \f \n \r \t \v.
SimpleEscapes ==
    { <<34, 34>>, <<39, 39>>, <<63, 63>>, <<92, 92>>, <<7, 97>>, <<8, 98>>, <<12, 102>>,
      <<10, 110>>, <<13, 114>>, <<9, 116>>, <<11, 118>> }

\* f'{b:o}': the octal digits of b with no padding.
RECURSIVE Octal_unpadded(_)
Octal_unpadded(b) ==
    IF b < 8 THEN <<48 + b>> ELSE Octal_unpadded(b \div 8) \o <<48 + (b % 8)>>

\* f'{b:03o}': the three octal digits of a byte.
Octal(b) == <<48 + (b \div 64), 48 + ((b \div 8) % 8), 48 + (b % 8)>>

\* What escaped_chars yields for the byte b.
escaped_char(b) ==
    IF b \in PlainChars THEN <<b>>
    ELSE IF \E e \in SimpleEscapes : e[1] = b
    THEN <<92, (CHOOSE e \in SimpleEscapes : e[1] = b)[2]>>
    ELSE <<92>> \o Octal(b)

\* escaped_chars(f): what the generator yields, in order.
escaped_chars(data) == [i \in 1..Len(data) |-> escaped_char(data[i])]

\* emit_source starts a line of the data literal with four spaces and a
\* double quote, and ends it once it has LineWidth characters.
LineWidth == 72

LineOpen == <<32, 32, 32, 32, 34>>

\* The loop of emit_source over escaped_chars(f), and the write after it:
\* the lines of the data literal, each closed with a double quote.
RECURSIVE emit_data_from(_, _, _)
emit_data_from(units, line, lines) ==
    IF units = <<>> THEN Append(lines, line \o <<34>>)
    ELSE IF Len(line \o Head(units)) >= LineWidth
    THEN emit_data_from(Tail(units), LineOpen, Append(lines, line \o Head(units) \o <<34>>))
    ELSE emit_data_from(Tail(units), line \o Head(units), lines)

emit_data(data) == emit_data_from(escaped_chars(data), LineOpen, <<>>)

\* The bytes a C compiler reads from the inside of a string literal: an
\* octal escape is a backslash and up to three octal digits, a simple
\* escape a backslash and one character.
IsOctal(c) == c \in 48..55

RECURSIVE c_unescape(_)
c_unescape(cs) ==
    IF cs = <<>> THEN <<>>
    ELSE IF Head(cs) # 92 THEN <<Head(cs)>> \o c_unescape(Tail(cs))
    ELSE IF Len(cs) >= 2 /\ IsOctal(cs[2])
    THEN LET n == IF Len(cs) >= 4 /\ IsOctal(cs[3]) /\ IsOctal(cs[4]) THEN 3
                  ELSE IF Len(cs) >= 3 /\ IsOctal(cs[3]) THEN 2 ELSE 1
             RECURSIVE val(_)
             val(k) == IF k = 0 THEN 0 ELSE 8 * val(k - 1) + (cs[k + 1] - 48)
         IN  <<val(n) % 256>> \o c_unescape(SubSeq(cs, n + 2, Len(cs)))
    ELSE IF Len(cs) >= 2 /\ \E e \in SimpleEscapes : e[2] = cs[2]
    THEN <<(CHOOSE e \in SimpleEscapes : e[2] = cs[2])[1]>> \o c_unescape(SubSeq(cs, 3, Len(cs)))
    ELSE <<>>

\* The adjacent string literals of the lines, read as C reads them.
RECURSIVE c_literals(_)
c_literals(lines) ==
    IF lines = <<>> THEN <<>>
    ELSE c_unescape(SubSeq(Head(lines), Len(LineOpen) + 1, Len(Head(lines)) - 1))
         \o c_literals(Tail(lines))

\* Bytes of the classes file_pack.py tells apart: NUL, newline, the four
\* characters C wants escaped, a digit, a letter, DEL, 0xFF.
DataBytes == {0, 10, 34, 39, 63, 92, 55, 65, 127, 255}

\* The contents of the files: every byte string of up to MaxData bytes,
\* and two that fill more than one line of the literal.
Datas ==
    UNION { [1..k -> DataBytes] : k \in 0..MaxData }
    \cup { [i \in 1..LongData |-> 255], [i \in 1..LongData |-> IF i % 3 = 0 THEN 10 ELSE 0] }

Call_emit_data ==
    Return("emit_data", [units |-> escaped_chars(arg.data), lines |-> emit_data(arg.data)])

InitPack ==
    /\ Imported
    /\ arg \in { [fn |-> "emit_data", data |-> d] : d \in Datas }

SpecPack == InitPack /\ [][Call_emit_data]_vars

(***************************************************************************)
(* Specifications of the functions of luatt.py.                            *)
(***************************************************************************)
InitEscape ==
    /\ Imported
    /\ arg \in { [fn |-> "escape_arg", bstr |-> b] : b \in BytesUpTo(MaxField) }

SpecEscape == InitEscape /\ [][Call_escape_arg]_vars

(***************************************************************************)
(* The specification.                                                      *)
(***************************************************************************)
Next ==
    \/ Call_escape_arg
    \/ Call_codec
    \/ Call_read_stream
    \/ Call_load_luaz
    \/ Call_emit_data
    \/ Call_strip_lua_comments
    \/ \E kind \in PathKinds : \E ok \in BOOLEAN : OpenConn(kind, ok)
    \/ MainStart
    \/ WaitVersionCheck
    \/ WaitVersionGet
    \/ Tick
    \/ VersionTimeout
    \/ ServerStart
    \/ \E req \in UserRequests : Request(req)
    \/ WaitCheck
    \/ WaitGet
    \/ RequestDone
    \/ \E ts \in TargetLists(B_load) \cup TargetLists(B_compile) : LoadCommand(ts)
    \/ LoadStep
    \/ ArgvDone
    \/ MqttArg
    \/ UserInterrupt
    \/ MainSigint
    \/ MainLoopExit
    \/ FinallyServer
    \/ FinallyClose
    \/ FinallyJoin
    \/ FinallyUnlink
    \/ FinallySigint
    \/ \E t \in Threads : OsWrite(t)
    \/ BusMessage
    \/ BusConnect
    \/ BusResubscribe
    \/ \E pkt \in DeviceFrames : ReadPacket(pkt)
    \/ \E pkt \in DeviceFrames : ReadPacketBegin(pkt)
    \/ BroadcastStep
    \/ ReadBadFd
    \/ ReadEOF
    \/ ReadBytesError
    \/ \E f \in MalformedCounts : ReadMalformed(f)
    \/ ReadKill
    \/ ReadQuit
    \/ \E fd \in Fds : Connect(fd)
    \/ \E fd \in Fds : \E pkt \in ClientFrames(fd) : HandlePacket(fd, pkt)
    \/ \E fd \in Fds : HandleMalformed(fd)
    \/ \E fd \in Fds : ClientClose(fd)
    \/ \E fd \in Fds : HandleEnd(fd)

Spec == Init /\ [][Next]_vars

(***************************************************************************)
(* Scenarios: the same program in a narrower environment.                  *)
(***************************************************************************)
\* The steps every scenario shares: the start of main() up to the attach
\* server, and the os.write calls.
Startup ==
    \/ MainStart
    \/ WaitVersionCheck
    \/ WaitVersionGet
    \/ Tick
    \/ VersionTimeout
    \/ ServerStart
    \/ \E t \in Threads : OsWrite(t)

\* The same with a device that never lets the version wait run out.
StartupInTime ==
    \/ MainStart
    \/ WaitVersionCheck
    \/ WaitVersionGet
    \/ ServerStart
    \/ \E t \in Threads : OsWrite(t)

VersionFrame == <<B_sched, B_version, E_v1>>

\* The step stays within so many external events and so many connections.
Within(inputs, clients) ==
    /\ nin' <= inputs
    /\ \A fd \in Fds : fd > clients => hPc'[fd] = "none"

\* stdout is no terminal and paho-mqtt is not installed.
InitPlain == Opened /\ ~Enable_REPL /\ paho = "none"

\* stdout is no terminal and paho-mqtt is installed.
InitBus == Opened /\ ~Enable_REPL /\ paho = "idle"

\* The attach server under clients that come, send well-formed frames and
\* go; the device sends its version and then stays silent or goes away.
NextAttach ==
    \/ Startup
    \/ ReadPacket(VersionFrame)
    \/ ReadEOF
    \/ ReadKill
    \/ MainSigint
    \/ \E fd \in Fds : Connect(fd)
    \/ \E fd \in Fds : \E pkt \in ClientFrames(fd) : HandlePacket(fd, pkt)
    \/ \E fd \in Fds : ClientClose(fd)
    \/ \E fd \in Fds : HandleEnd(fd)

SpecAttach == InitPlain /\ [][NextAttach]_vars

\* The same, with clients that also send header lines no frame has.
NextMalformed ==
    /\ \/ NextAttach
       \/ \E fd \in Fds : HandleMalformed(fd)
    /\ Within(FewInputs, FewClients)

SpecMalformed == InitPlain /\ [][NextMalformed]_vars

\* Frames of clients that keep to tokens of their own.
QuietClientFrames == { <<B_noret, B_reconnect, B_ppid>>, <<E_D1, B_eval, E_line>> }

\* The router under a talking device, with clients that attach and send.
NextRouter ==
    /\ \/ StartupInTime
       \/ \E pkt \in DeviceFrames : ReadPacket(pkt)
       \/ \E fd \in Fds : Connect(fd)
       \/ \E fd \in Fds : \E pkt \in QuietClientFrames : HandlePacket(fd, pkt)
    /\ Within(FewInputs, FewClients)

SpecRouter == Opened /\ [][NextRouter]_vars

\* Frames of a client that sends back the token it was sent last.
EchoFrames(fd) ==
    { <<t, B_eval, E_line>> : t \in {E_D1} \cup { w.frame[1] : w \in Range(sock[fd].w) } }

\* Frames the device sends in answer to requests.
AnswerFrames ==
    { VersionFrame }
    \cup { <<t, B_ret, E_42>> : t \in DeviceTokens }
    \cup { <<t, E_out, E_hi>> : t \in DeviceTokens }

\* Requests of the main thread against a device that answers, with clients
\* attached, until the device goes away.
NextRequest ==
    /\ \/ Startup
       \/ \E req \in UserRequests : Request(req)
       \/ WaitCheck
       \/ WaitGet
       \/ RequestDone
       \/ \E pkt \in AnswerFrames : ReadPacket(pkt)
       \/ ReadEOF
       \/ ReadKill
       \/ MainSigint
       \/ \E fd \in Fds : Connect(fd)
       \/ \E fd \in Fds : \E pkt \in EchoFrames(fd) : HandlePacket(fd, pkt)
    /\ Within(MaxInputs, FewClients)

SpecRequest == InitPlain /\ [][NextRequest]_vars

\* The three writers of the upstream fd at once: the main thread with its
\* requests, the handlers forwarding the frames of clients, and the bus
\* thread with the messages of a topic the device subscribed.
NextProducers ==
    /\ \/ Startup
       \/ MqttArg
       \/ \E req \in UserRequests : Request(req)
       \/ \E pkt \in {VersionFrame, <<B_noret, B_sub, E_topic>>} : ReadPacket(pkt)
       \/ BusMessage
       \/ \E fd \in Fds : Connect(fd)
       \/ \E fd \in Fds : \E pkt \in ClientFrames(fd) : HandlePacket(fd, pkt)
    /\ Within(MaxInputs, FewClients)

SpecProducers == InitBus /\ [][NextProducers]_vars

\* A request of the main thread from its start to the end of the process:
\* the device answers or goes away, the user interrupts, in the argument
\* loop and at the prompt.
NextShutdown ==
    /\ \/ Startup
       \/ Request(<<B_eval, E_line>>)
       \/ WaitCheck
       \/ WaitGet
       \/ RequestDone
       \/ ArgvDone
       \/ UserInterrupt
       \/ MainSigint
       \/ MainLoopExit
       \/ FinallyServer
       \/ FinallyClose
       \/ FinallyJoin
       \/ FinallyUnlink
       \/ FinallySigint
       \/ \E pkt \in AnswerFrames : ReadPacket(pkt)
       \/ ReadEOF
       \/ ReadBytesError
       \/ ReadKill
       \/ ReadQuit
    /\ Within(MaxInputs, FewClients)

\* paho-mqtt is not installed.
InitNoBus == Opened /\ paho = "none"

SpecShutdown == InitNoBus /\ [][NextShutdown]_vars

\* The steps of the main thread that wait for nothing outside the process.
MainRuns ==
    \/ MainStart
    \/ WaitVersionCheck
    \/ WaitVersionGet
    \/ Tick
    \/ VersionTimeout
    \/ ServerStart
    \/ WaitCheck
    \/ WaitGet
    \/ RequestDone
    \/ MainSigint
    \/ MainLoopExit
    \/ FinallyServer
    \/ FinallyClose
    \/ FinallyJoin
    \/ FinallyUnlink
    \/ FinallySigint
    \/ LoadStep
    \/ OsWrite(MainTh)

\* The steps of read_serial that wait for nothing outside the process.
ReaderRuns == ReadKill \/ ReadQuit

\* The same under a scheduler that lets every thread run: a step a thread
\* can take for ever is taken, and a signal sent is delivered.
SpecShutdownFair ==
    SpecShutdown /\ WF_vars(MainRuns) /\ WF_vars(ReaderRuns)

\* The steps of the handler threads that wait for nothing outside the
\* process.
HandlersRun == \E fd \in Fds : HandleEnd(fd) \/ OsWrite(fd)

\* The end of the process with clients attached: the device goes away or
\* the user interrupts, and main() runs its finally clause.
NextFinally ==
    /\ \/ Startup
       \/ ArgvDone
       \/ UserInterrupt
       \/ MainSigint
       \/ MainLoopExit
       \/ FinallyServer
       \/ FinallyClose
       \/ FinallyJoin
       \/ FinallyUnlink
       \/ FinallySigint
       \/ ReadPacket(VersionFrame)
       \/ ReadEOF
       \/ ReadKill
       \/ ReadQuit
       \/ \E fd \in Fds : Connect(fd)
       \/ \E fd \in Fds : \E pkt \in QuietClientFrames : HandlePacket(fd, pkt)
       \/ \E fd \in Fds : HandleEnd(fd)
    /\ Within(MaxInputs, FewClients)

SpecFinally == InitNoBus /\ [][NextFinally]_vars

SpecFinallyFair ==
    SpecFinally /\ WF_vars(MainRuns) /\ WF_vars(ReaderRuns) /\ WF_vars(HandlersRun)

\* A device that sends header lines with malformed counts among its
\* answers.
NextBadUpstream ==
    /\ \/ Startup
       \/ Request(<<B_eval, E_line>>)
       \/ WaitCheck
       \/ WaitGet
       \/ RequestDone
       \/ \E pkt \in AnswerFrames : ReadPacket(pkt)
       \/ \E f \in MalformedCounts : ReadMalformed(f)
    /\ Within(MaxInputs, FewClients)

SpecBadUpstream == InitPlain /\ [][NextBadUpstream]_vars

\* A serial device.
InitSerial == InitPlain /\ ~is_socket

\* The start on a serial device that sends its version late or never, and
\* other frames in between, or goes away.
NextHandshake ==
    /\ \/ Startup
       \/ \E pkt \in {VersionFrame, <<B_sched, E_out, E_hi>>, <<E_D1, B_ret, E_42>>} :
             ReadPacket(pkt)
       \/ ReadEOF
       \/ ReadKill
       \/ MainSigint
    /\ Within(MaxInputs, FewClients)

SpecHandshake == InitSerial /\ [][NextHandshake]_vars

\* The start of main() on any path: open_conn, the reader thread, the
\* version handshake.
NextOpen ==
    /\ \/ \E kind \in PathKinds : \E ok \in BOOLEAN : OpenConn(kind, ok)
       \/ Startup
       \/ ReadBadFd
       \/ \E pkt \in {VersionFrame, <<B_sched, E_out, E_hi>>} : ReadPacket(pkt)
       \/ ReadEOF
       \/ ReadKill
       \/ MainSigint
    /\ Within(MaxInputs, FewClients)

SpecOpen == Init /\ [][NextOpen]_vars

\* Load commands at the prompt and load targets on the command line, with
\* a device that answers every request.
NextLoad ==
    /\ \/ StartupInTime
       \/ \E ts \in TargetLists(B_load) \cup TargetLists(B_compile) : LoadCommand(ts)
       \/ LoadStep
       \/ WaitCheck
       \/ WaitGet
       \/ RequestDone
       \/ ArgvDone
       \/ \E pkt \in {VersionFrame} \cup { <<t, B_ret, E_42>> : t \in DeviceTokens } :
             ReadPacket(pkt)
    /\ Within(MaxInputs, FewClients)

\* stdout is a terminal and paho-mqtt is not installed.
InitPrompt == Opened /\ Enable_REPL /\ paho = "none"

SpecLoad == InitPrompt /\ [][NextLoad]_vars

\* The topics of the bridge scenario.
Topics == {E_topic, E_topic2}

\* The sub and unsub frames of a device.
BridgeFrames ==
    { <<B_noret, B_sub, t>> : t \in Topics }
    \cup { <<B_noret, B_unsub, t>> : t \in Topics \cup {B_star} }

\* A device on a serial port that subscribes and unsubscribes, with and
\* without paho-mqtt, before and after --mqtt=HOST connected the client.
NextBridge ==
    /\ \/ StartupInTime
       \/ MqttArg
       \/ BusConnect
       \/ BusResubscribe
       \/ \E pkt \in {VersionFrame} \cup BridgeFrames : ReadPacket(pkt)
    /\ Within(MaxInputs, FewClients)

InitBridge == Opened /\ ~Enable_REPL /\ ~is_socket

SpecBridge == InitBridge /\ [][NextBridge]_vars

\* The threads that share Downstreams and Subscriptions, every one run in
\* its own steps: the reader with its loop over Downstreams, the handlers
\* of attached clients, the callback of the bus client.
NextShared ==
    /\ \/ StartupInTime
       \/ MqttArg
       \/ BusConnect
       \/ BusResubscribe
       \/ \E pkt \in {VersionFrame, <<B_noret, B_sub, E_topic>>} : ReadPacket(pkt)
       \/ \E pkt \in {<<B_sched, E_out, E_hi>>} : ReadPacketBegin(pkt)
       \/ BroadcastStep
       \/ \E fd \in Fds : Connect(fd)
       \/ \E fd \in Fds : \E pkt \in QuietClientFrames : HandlePacket(fd, pkt)
       \/ \E fd \in Fds : ClientClose(fd)
       \/ \E fd \in Fds : HandleEnd(fd)
    /\ Within(MaxInputs, MaxClients)

SpecShared == InitBridge /\ [][NextShared]_vars

\* The one reply queue between the reader and the main thread: a serial
\* device that sends its version, output of the scheduler and answers to
\* the requests, at any moment of the version wait and of the requests.
NextInbound ==
    /\ \/ StartupInTime
       \/ \E req \in UserRequests : Request(req)
       \/ WaitCheck
       \/ WaitGet
       \/ RequestDone
       \/ \E pkt \in AnswerFrames : ReadPacket(pkt)
    /\ Within(MaxInputs, FewClients)

SpecInbound == InitSerial /\ [][NextInbound]_vars

(***************************************************************************)
(* Properties of the router.                                               *)
(***************************************************************************)
\* The step is read_serial handing the packet `packet'` to
\* process_serial_packet.
RouterStep == nread' = nread + 1

\* The packet has a token and a verb, and the verb is none of the bus verbs.
Routed(pkt) == Len(pkt) >= 2 /\ coerce_string(pkt[2]) \notin {B_pub, B_sub, B_unsub}

\* The text of the fields after the token, joined by '|'.
BodyText(pkt) ==
    Join([i \in 1..(Len(pkt) - 1) |-> decode_or_repr(pkt[i + 1])], <<124>>)

\* C1: a frame read from upstream with at least two fields and a verb other
\* than pub/sub/unsub is put on the reply queue, and nothing is written to
\* the default output, when its token is registered in QS; otherwise the
\* text of its non-token fields joined by '|' is written as one line to the
\* default output (after the erase-line sequence at a terminal) and nothing
\* is put on the queue.
C1_RouterRouting ==
    [][ (RouterStep /\ Routed(packet')) =>
          IF coerce_string(packet'[1]) \in QS
          THEN /\ ReplQ' = Append(ReplQ, [n |-> nread', pkt |-> packet'])
               /\ stdout' = stdout
          ELSE /\ ReplQ' = ReplQ
               /\ stdout'.cnt = stdout.cnt + 1
               /\ \E pre \in {<<>>, <<27, 91, 50, 75, 13>>} :
                     stdout'.last = pre \o BodyText(packet') \o <<10>>
      ]_vars

\* A frame was queued and is still there, and a later frame whose token was
\* not registered went to the default output.
C1_Witness ==
    /\ ReplQ # <<>>
    /\ nread > ReplQ[Len(ReplQ)].n
    /\ Routed(packet)
    /\ stdout.cnt >= 1
    /\ stdout.last \in { pre \o BodyText(packet) \o <<10>> :
                           pre \in {<<>>, <<27, 91, 50, 75, 13>>} }

\* The socket of fd was written the packet `packet'` in this step.
Received(fd) ==
    /\ sock'[fd].cnt = sock[fd].cnt + 1
    /\ sock'[fd].w # <<>>
    /\ sock'[fd].w[1].n = nread'
    /\ sock'[fd].w[1].frame = packet'

\* C2: whenever the router reads a frame from upstream, every client that
\* is connected to the attach socket at that moment receives the frame,
\* a client without an entry of its own in the routing table included.
C2_BroadcastToEveryClient ==
    [][ RouterStep => \A fd \in Fds : hPc[fd] = "run" => Received(fd) ]_vars

C9_ArrivalOrder ==
    [][ /\ \A i, j \in 1..Len(ReplQ') : i < j => ReplQ'[i].n < ReplQ'[j].n
        /\ ReplQ' # ReplQ =>
              \/ ReplQ # <<>> /\ ReplQ' = Tail(ReplQ)
              \/ /\ ReplQ' = Append(ReplQ, ReplQ'[Len(ReplQ')])
                 /\ ReplQ'[Len(ReplQ')] = [n |-> nread', pkt |-> packet']
                 /\ RouterStep
        /\ \A fd \in Fds :
              (sock'[fd] # sock[fd] /\ sock'[fd].w # <<>>) =>
                  /\ sock'[fd].w[1].n = nread' /\ RouterStep
                  /\ sock[fd].w # <<>> => sock[fd].w[1].n < sock'[fd].w[1].n
      ]_vars

\* The waiter has taken the first packet off the reply queue while packets
\* read after it wait behind.
C9_Witness ==
    /\ mainPc = "wait_version"
    /\ Len(ReplQ) >= 2
    /\ ReplQ[1].n = 2
    /\ ReplQ[2].n = 3

(***************************************************************************)
(* Properties of the attach server.                                        *)
(***************************************************************************)
\* The step is the handler of fd taking the packet `hpacket'[fd]` from
\* read_packet.
HandlerStep(fd) ==
    /\ hPc[fd] = "run"
    /\ nin' = nin + 1
    /\ wbuf'[fd] # wbuf[fd] \/ hPc'[fd] = "keyerror"

\* The entries of the routing table d that point at fd.
EntriesOf(d, fd) == { i \in 1..Len(d) : d[i][2] = fd }

\* C4 as stated: when a client that sent a frame with the token T1 sends,
\* without disconnecting, a frame with a distinct routable token T2, the
\* routing table afterwards maps T2 to that client and holds T1 no longer;
\* and in every state each connected client owns at most one entry.
C4_OneInFlight ==
    [][ /\ \A fd \in Fds :
              ( /\ HandlerStep(fd)
                /\ last_token[fd] # None
                /\ coerce_string(hpacket'[fd][1]) \notin {B_empty, B_noret}
                /\ coerce_string(hpacket'[fd][1]) # last_token[fd] )
              => /\ \E i \in 1..Len(Downstreams') :
                        Downstreams'[i] = <<coerce_string(hpacket'[fd][1]), fd>>
                 /\ \A i \in 1..Len(Downstreams') :
                        Downstreams'[i][1] # last_token[fd]
        /\ \A fd \in Fds :
              hPc'[fd] \in {"run", "eof"} => Cardinality(EntriesOf(Downstreams', fd)) <= 1
      ]_vars

\* C5: the routing table never has the empty token or the token noret as a
\* key.
C5_NoSpecialToken ==
    \A i \in 1..Len(Downstreams) : Downstreams[i][1] \notin {<<>>, B_noret}

\* A client that had an entry in the routing table has sent a frame with
\* the token noret and then a frame with the empty token, and its handler
\* has taken both.
C5_Witness ==
    \E fd \in Fds :
        /\ hPc[fd] = "run"
        /\ asked \cap {E_D1, E_D2} # {}
        /\ wire # <<>> /\ wire[1].by = fd /\ wire[1].frame[1] = B_noret
        /\ hpacket[fd] # <<>> /\ hpacket[fd][1] = <<>>
        /\ wbuf[fd] # <<>>

\* C6 as stated: once the handler of a connection has finished, for
\* whatever reason the connection ended, the routing table holds no entry
\* that points at the socket of that connection.
C6_DisconnectCleans ==
    \A fd \in Fds :
        hPc[fd] \in {"done", "crashed", "keyerror"} => EntriesOf(Downstreams, fd) = {}

(***************************************************************************)
(* Properties of the requests and of the writes upstream.                  *)
(***************************************************************************)
\* C7 as stated: in every state no token is a key of QS and of Downstreams
\* at once.
C7_TokenInOneTable == \A t \in QS : ~HasKey(Downstreams, t)

\* C7: a token is never a key of both tables by the doing of the local
\* issuer: the token a request registers in QS is no key of Downstreams at
\* that moment.  A token comes to be a key of both only when the handler of
\* an attached client installs a token that is registered in QS, which
\* nothing in the handler prevents.
C7_OverlapOnlyByClient ==
    [][ \A t \in QS' :
           (HasKey(Downstreams', t) /\ ~(t \in QS /\ HasKey(Downstreams, t))) =>
               /\ t \in QS
               /\ \E fd \in Fds : /\ HandlerStep(fd)
                                  /\ coerce_string(hpacket'[fd][1]) = t
                                  /\ Downstreams'[Len(Downstreams')] = <<t, fd>>
      ]_vars

\* The token of the request the main thread waits on is the token of an
\* attached client as well.
C7_Witness ==
    /\ mainPc \in {"wait_ret", "wait_get"}
    /\ token \in QS
    /\ \E fd \in Fds : hPc[fd] = "run" /\ last_token[fd] = token
    /\ HasKey(Downstreams, token)

\* The bytes of one frame: the header line, then every field that is not
\* clean as a raw trailer, each ended by a newline.
RECURSIVE RawTrailers(_)
RawTrailers(args) ==
    IF args = <<>> THEN <<>>
    ELSE (IF is_clean(Head(args)) THEN <<>> ELSE Head(args) \o <<10>>)
         \o RawTrailers(Tail(args))

WholeFrame(f) == HeaderLine(f) \o <<10>> \o RawTrailers(Tail(f))

C11_RequestUnregistered ==
    (mainPc \in {"idle", "finally"} /\ token # None) => token \notin QS

\* The main thread waits on the reply queue: in wait_for_ret or in
\* wait_for_version.
Waiting == mainPc \in {"wait_ret", "wait_get", "wait_version", "version_get"}

\* read_serial has met the end of the upstream: end of file or a read error.
UpstreamGone == rdPc \in {"kill", "quit", "ioerror"}

\* C12 as stated: when the upstream has ended while the main thread waits
\* on the reply queue, the wait ends, and a wait that ends on the empty
\* queue ends by returning None to the caller of wait_for_ret or
\* wait_for_version.
C12_WaitersReturnNone ==
    /\ [][ (UpstreamGone /\ Waiting /\ ReplQ = <<>> /\ ~Waiting') =>
              (result' = None /\ mainPc' \in {"req_del", "time_sync"}) ]_vars
    /\ ((UpstreamGone /\ Waiting) ~> ~Waiting)

\* No handler thread is left.
HandlersOver == \A fd \in Fds : hPc[fd] \notin {"run", "eof"}

\* Server_thread.join() and th_serial.join() of main() have returned.
JoinsDone == mainPc \in {"unlink", "exit0"}

\* C13 as stated, for a process that has entered the try block of main():
\* once Quit is set, the reader thread and every handler thread end, and
\* the joins of main() on the server thread and on the reader thread
\* return.
C13_ShutdownTerminates ==
    (Quit /\ phase = "repl") ~> ((ReaderOver \/ Exited) /\ HandlersOver /\ JoinsDone)

\* C14 as stated: a header line from the upstream with a malformed count
\* is dropped: the reader runs on, and the frame is neither queued, nor
\* written to stdout, nor broadcast.
C14_MalformedDropped ==
    [][ \A f \in MalformedCounts :
            ReadMalformed(f) =>
                /\ rdPc' = "run"
                /\ nread' = nread
                /\ UNCHANGED <<ReplQ, stdout, sock>> ]_vars

\* C15 as stated: whatever has happened to the attached clients, a step of
\* the router leaves the reader running and the shutdown flag unset, and
\* gives the frame to every client of the routing table whose connection
\* is open.
C15_ClientErrorLocal ==
    [][ RouterStep =>
          /\ rdPc' = "run"
          /\ ~Quit'
          /\ \A i \in 1..Len(BroadcastTargets(packet')) :
                LET fd == BroadcastTargets(packet')[i][2] IN
                Writable(fd) => sock'[fd].cnt = sock[fd].cnt + 1 ]_vars

(***************************************************************************)
(* Properties of the startup.                                              *)
(***************************************************************************)
\* The main thread is in wait_for_version.
VersionWait == mainPc \in {"wait_version", "version_get"}

\* C16 as stated: during the version wait QS has the key sched; the wait
\* ends with a result only by a frame (sched, version, ...); and the wait
\* goes on only while less than 10 seconds have passed since it began,
\* whatever frames have come.
C16_VersionHandshake ==
    /\ [](VersionWait => B_sched \in QS)
    /\ [][ (VersionWait /\ mainPc' = "time_sync" /\ ~Quit) =>
              (result' # None /\ result'[1] = B_sched /\ result'[2] = B_version) ]_vars
    /\ [][ (VersionWait /\ waited' # waited /\ mainPc' = mainPc) =>
              waited < VersionTimeoutSecs ]_vars

\* C17 as stated: open_conn on a character device that opens selects the
\* serial transport, on a socket that connects the socket transport, and
\* main() goes on to start the reader; in every other case the process
\* exits with code 5, and the reader thread is never started.
C17_TransportSelection ==
    /\ [][ \A kind \in PathKinds : \A ok \in BOOLEAN :
              OpenConn(kind, ok) =>
                  IF kind = "chr" /\ ok THEN mainPc' = "start" /\ ~is_socket'
                  ELSE IF kind = "sock" /\ ok THEN mainPc' = "start" /\ is_socket'
                  ELSE mainPc' = "exit5" ]_vars
    /\ [](rdPc # "init" => Conn_fd = "fd")

(***************************************************************************)
(* Properties of the loader.                                               *)
(***************************************************************************)
\* C18 as stated: a turn of the loop of cmd_load takes the first target
\* off the list and every target after it is still to come; when the target
\* is a Lua file that can be read a load or compile request with its name is
\* written, and when it cannot be read or opened nothing is written and the
\* program goes on.
C18_LoadFailureLocal ==
    [][ LoadStep =>
          /\ targets' = Tail(targets)
          /\ ~Quit'
          /\ IF Head(targets).kind = "lua"
             THEN /\ wbuf'[MainTh] # <<>>
                  /\ wbuf'[MainTh][1].frame[2] = Head(targets).verb
                  /\ wbuf'[MainTh][1].frame[3] = Head(targets).name
             ELSE /\ wbuf'[MainTh] = <<>>
                  /\ mainPc' = IF targets' # <<>> THEN "load" ELSE "idle" ]_vars

(***************************************************************************)
(* Properties of the MQTT bridge.                                          *)
(***************************************************************************)
\* The calls in log are one call of op for each topic of S, and no other.
OneEach(op, log, S) ==
    /\ Len(log) = Cardinality(S)
    /\ \A t \in S :
          Cardinality({ i \in DOMAIN log : log[i] = [op |-> op, topic |-> t] }) = 1

\* C19: when the reader has handled `unsub | *` the Subscriptions set is
\* empty and the paho client, when there is one, was called with
\* unsubscribe once for each topic the set held just before; when it has
\* handled `unsub | topic` only that topic has left the set and the client
\* was called with one unsubscribe, for that topic.
C19_UnsubscribeAll ==
    [][ \A pkt \in BridgeFrames :
          (pkt[2] = B_unsub /\ ReadPacket(pkt)) =>
             IF pkt[3] = B_star
             THEN /\ Subscriptions' = {}
                  /\ paho # "none" => OneEach("unsubscribe", busLog', Subscriptions)
             ELSE /\ Subscriptions' = Subscriptions \ {pkt[3]}
                  /\ paho # "none" =>
                        busLog' = <<[op |-> "unsubscribe", topic |-> pkt[3]]>> ]_vars

\* `unsub | *` was handled with two topics in the set and a connected
\* client: the set is empty and two unsubscribe calls were made.
C19_Witness ==
    /\ packet = <<B_noret, B_unsub, B_star>>
    /\ paho = "running"
    /\ Subscriptions = {}
    /\ Len(busLog) = 2
    /\ busLog[1].op = "unsubscribe"

\* The set of topics after the device sent pkt: sub'ed and not since
\* unsub'ed.
Tracked(pkt) ==
    IF pkt[2] = B_sub THEN Subscriptions \cup {pkt[3]}
    ELSE IF pkt[3] = B_star THEN {}
    ELSE Subscriptions \ {pkt[3]}

HandlesBridgeFrame == \E pkt \in BridgeFrames : ReadPacket(pkt)

\* C20 as stated: the Subscriptions set follows the sub and unsub frames
\* of the device and nothing else, with a client or without; and a
\* successful connect of the bus client ends with subscribe called for
\* every topic the set held at the connect.
C20_SubscriptionReplay ==
    /\ [][ /\ \A pkt \in BridgeFrames : (ReadPacket(pkt) => Subscriptions' = Tracked(pkt))
           /\ (~HandlesBridgeFrame => Subscriptions' = Subscriptions) ]_vars
    /\ [][ (replay.on /\ ~replay'.on) =>
              replay.had \subseteq { c.topic : c \in Range(replay'.calls) } ]_vars

(***************************************************************************)
(* Properties of the codec.                                                *)
(***************************************************************************)
\* A clean field: not empty, every byte in 0x20..0x7E, no '|', and the
\* first byte not '&'.
Clean(b) ==
    /\ b # <<>>
    /\ \A i \in 1..Len(b) : b[i] >= 32 /\ b[i] <= 126 /\ b[i] # 124
    /\ b[1] # 38

\* C22 as stated: escape_arg returns a clean field as it is with no
\* trailer, and for every other field, the empty one too, the placeholder
\* '&' with the decimal length and the raw bytes as the trailer.
C22_CleanClassification ==
    (arg.fn = "escape_arg" /\ ret # <<>>) =>
        ret[1] = IF Clean(arg.bstr) THEN <<arg.bstr, <<>>>>
                 ELSE <<(<<38>> \o Decimal(Len(arg.bstr))), <<arg.bstr>>>>

\* C21 as stated: read_packet, given the bytes write_command wrote for
\* the fields F, returns F.
C21_CodecRoundTrip ==
    (arg.fn = "codec" /\ ret # <<>>) => (ret[1].st = "ok" /\ ret[1].v = arg.F)

\* C27: however the transport cuts the stream of well-formed frames into
\* chunks, read_serial gets the frames that were written, in order, each
\* field whole, and when the stream is read nothing is left buffered: no
\* byte is lost and none is read twice.
C27_ChunkIndependence ==
    (arg.fn = "read_stream" /\ ret # <<>>) =>
        /\ ret[1].packets = arg.frames
        /\ ret[1].partial = <<>>
        /\ ret[1].st = "blocked"

\* Two frames were read from three chunks, the first cut inside the
\* trailer of the first frame and the second inside the next header line.
C27_Witness ==
    /\ arg.fn = "read_stream"
    /\ ret # <<>>
    /\ arg.frames = << <<(<<65>>), <<10, 124>>>>, <<(<<65>>), <<10>>>> >>
    /\ arg.chunks = << <<65, 124, 38, 50, 10, 10>>, <<124, 10, 65, 124>>, <<38, 49, 10, 10, 10>> >>
    /\ Len(ret[1].packets) = 2

(***************************************************************************)
(* Properties of the loader of archives.                                   *)
(***************************************************************************)
\* The Loader.cmd entries of an archive one directory deep.
DepthOne(z) ==
    { n \in Range(z) : \E d \in {<<97>>, <<98>>} : n = d \o <<47>> \o N_Loader }

\* C24 as stated: a Loader.cmd at the root of the archive is the one
\* selected, wherever it stands in the archive; without one, the only
\* Loader.cmd one directory deep is selected; otherwise nothing is selected
\* and load_data is not called.
C24_ManifestLookup ==
    (arg.fn = "load_luaz" /\ ret # <<>>) =>
        IF N_Loader \in Range(arg.infolist) THEN ret[1].loader = <<N_Loader>>
        ELSE IF Cardinality(DepthOne(arg.infolist)) = 1
        THEN ret[1].loader \in { <<n>> : n \in DepthOne(arg.infolist) }
        ELSE ret[1].loader = <<>> /\ ret[1].loaded = <<>>

(***************************************************************************)
(* Properties of the packer.                                               *)
(***************************************************************************)
\* A printable character kept literal: not the double quote, the single
\* quote, the question mark or the backslash.
KeptLiteral(u) == Len(u) = 1 /\ u[1] \in (32..126) \ {34, 39, 63, 92}

OctalEscape(u) == Len(u) = 4 /\ u[1] = 92 /\ \A i \in 2..4 : IsOctal(u[i])

SimpleEscape(u) == Len(u) = 2 /\ u[1] = 92 /\ \E e \in SimpleEscapes : e[2] = u[2]

\* C25 as stated: the data literal is made of printable characters kept
\* literal and of three-digit octal escapes, the escape standing for every
\* byte that is not kept literal, and read back it gives the bytes of the
\* file.
C25_OctalOnly ==
    (arg.fn = "emit_data" /\ ret # <<>>) =>
        /\ \A i \in 1..Len(arg.data) :
              IF KeptLiteral(<<arg.data[i]>>) THEN ret[1].units[i] = <<arg.data[i]>>
              ELSE OctalEscape(ret[1].units[i])
        /\ c_literals(ret[1].lines) = arg.data

\* C25 amended: the data literal is made of printable characters kept
\* literal, of the simple escapes of C for the double quote, the single
\* quote, the question mark, the backslash and the control characters
\* \a \b \f \n \r \t \v, and of three-digit octal escapes for every other
\* byte; and read back as C reads adjacent string literals it gives the
\* bytes of the file.
C25_EscapesDecode ==
    (arg.fn = "emit_data" /\ ret # <<>>) =>
        /\ \A i \in 1..Len(arg.data) :
              LET u == ret[1].units[i] IN
              IF KeptLiteral(<<arg.data[i]>>) THEN u = <<arg.data[i]>>
              ELSE IF \E e \in SimpleEscapes : e[1] = arg.data[i] THEN SimpleEscape(u)
              ELSE OctalEscape(u)
        /\ c_literals(ret[1].lines) = arg.data

\* A long file of NUL bytes and newlines was emitted as more than one
\* line.
C25_Witness ==
    /\ arg.fn = "emit_data"
    /\ ret # <<>>
    /\ Len(arg.data) = LongData
    /\ arg.data[3] = 10
    /\ Len(ret[1].lines) >= 2

(***************************************************************************)
(* Properties of the comment stripper.                                     *)
(***************************************************************************)
Newlines(t) == Len(SelectSeq(t, LAMBDA c : c = 10))

\* C23: strip_lua_comments(s) has as many newlines as s.
C23_NewlinesKept ==
    (arg.fn = "strip_lua_comments" /\ ret # <<>>) =>
        Newlines(ret[1]) = Newlines(arg.lua_code)

\* A long comment over two lines was stripped to its newline.
C23_Witness ==
    /\ arg.fn = "strip_lua_comments"
    /\ arg.lua_code = <<45, 45, 91, 91, 10, 93, 93>>
    /\ ret = << <<10>> >>

(***************************************************************************)
(* Properties of the shared containers.                                    *)
(***************************************************************************)
\* C26 as stated: while the reader is in its loop over Downstreams no
\* handler changes Downstreams, and while the callback of the bus client
\* is in its loop over Subscriptions the reader does not change
\* Subscriptions.
C26_MutualExclusion ==
    [][ /\ bcast.on => Downstreams' = Downstreams
        /\ replay.on => Subscriptions' = Subscriptions ]_vars

(***************************************************************************)
(* Properties of the reply queue.                                          *)
(***************************************************************************)
\* The packet is the version frame, which wait_for_version logs.
IsVersion(v) == v[1] = B_sched /\ v[2] = B_version

\* C28 as stated: no inbound frame is lost.  A frame with two fields or
\* more and no bus verb either goes to the default output when the reader
\* routes it or is put on the reply queue, and a frame a waiter takes off
\* the reply queue is written to stdout by that waiter, or is the version
\* frame taken by the version wait.
C28_NoFrameLost ==
    [][ /\ \A pkt \in AnswerFrames :
              (ReadPacket(pkt) =>
                  \/ stdout' = Write(stdout, DefaultLine(pkt))
                  \/ ReplQ' = QPut(ReplQ, nread + 1, pkt))
        /\ (ReplQ # <<>> /\ ReplQ' = Tail(ReplQ)) =>
              \/ stdout' = Write(stdout, WaiterLine(Head(ReplQ).pkt))
              \/ mainPc = "version_get" /\ IsVersion(Head(ReplQ).pkt) ]_vars

====
